---- MODULE Spec2Model ----
(***************************************************************************)
(* Model of src/parser/pdf_tools.py: the PDF field extraction and          *)
(* canonicalization pipeline (parse_pdf_to_csv), its helpers               *)
(* (_normalize_lookup_key, _strip_tgmd_trial_suffix, deduplicate_fields,   *)
(* _fuzzy_find_in_mapping) and the mapping-table loader                    *)
(* (load_pdf_qualtrics_mapping).                                           *)
(*                                                                         *)
(* Python strings are sequences of one-character strings; Python dicts     *)
(* (insertion ordered) are sequences of <<key, value>> pairs with unique   *)
(* keys.                                                                   *)
(***************************************************************************)
EXTENDS Naturals, Integers, Sequences, FiniteSets, TLC

VARIABLES
    pc,          \* position of the running function
    fields,      \* deduplicate_fields: the argument
    deduplicated,\* deduplicate_fields: the dict built by the value-grouping pass
    normalized,  \* deduplicate_fields: the returned dict
    pdf,         \* parse_pdf_to_csv: the PDF file (stem, raw_fields, sidecar)
    mapping,     \* parse_pdf_to_csv: the mapping table argument
    data,        \* parse_pdf_to_csv: the record being built
    trail,       \* parse_pdf_to_csv: per raw field, the strategy outcomes and the key used
    log,         \* parse_pdf_to_csv: the log lines of the sessionkey check
    fuzzy,       \* the substring match of lines 665-671: field name, sorted keys, found key
    files,       \* the files next to the PDF (set of suffixes of the PDF's stem)
    extraction,  \* parse_pdf_to_csv lines 619-650: the document, the helper calls made, raw_fields
    loader,      \* load_pdf_qualtrics_mapping: mapping_data, entries done, the table under construction
    normalizing, \* _normalize_lookup_key: the argument and the results of one and two applications
    cli,         \* parse_pdf_cli.py main: arguments, files, exit code, standard streams
    mapped,      \* map_pdf_field_data: the arguments and the returned record
    stripping    \* _strip_tgmd_trial_suffix: the argument and the result

vars == <<pc, fields, deduplicated, normalized, pdf, mapping, data, trail, log, fuzzy,
          files, extraction, loader, normalizing, cli, mapped, stripping>>

(***************************************************************************)
(* Python's None: a value no string is equal to.                           *)
(***************************************************************************)
None == <<"<None>">>

(***************************************************************************)
(* Characters and str methods.                                             *)
(***************************************************************************)
UpperChars == <<"A","B","C","D","E","F","G","H","I","J","K","L","M",
                "N","O","P","Q","R","S","T","U","V","W","X","Y","Z">>
LowerChars == <<"a","b","c","d","e","f","g","h","i","j","k","l","m",
                "n","o","p","q","r","s","t","u","v","w","x","y","z">>
DigitChars == <<"0","1","2","3","4","5","6","7","8","9">>

UpperSet == {UpperChars[i] : i \in DOMAIN UpperChars}
LowerSet == {LowerChars[i] : i \in DOMAIN LowerChars}
DigitSet == {DigitChars[i] : i \in DOMAIN DigitChars}
ToLower == [c \in UpperSet |-> LowerChars[CHOOSE i \in DOMAIN UpperChars : UpperChars[i] = c]]
ToUpper == [c \in LowerSet |-> UpperChars[CHOOSE i \in DOMAIN LowerChars : LowerChars[i] = c]]
DigitValue == [c \in DigitSet |-> (CHOOSE i \in DOMAIN DigitChars : DigitChars[i] = c) - 1]

\* str.isupper, islower, isdigit, isalnum, isspace of one character
\* the character U+2102, a capital letter for which str.lower() has no
\* lower-case form ('\u2102'.isupper() and isalnum() hold, lower() returns it)
DoubleStruckC == "U+2102"

IsUpper(c) == c \in UpperSet \/ c = DoubleStruckC
IsLower(c) == c \in LowerSet
IsDigit(c) == c \in DigitSet
IsAlnum(c) == IsUpper(c) \/ IsLower(c) \/ IsDigit(c)
IsSpace(c) == c \in {" ", "\t", "\n"}

CharLower(c) == IF c \in UpperSet THEN ToLower[c] ELSE c
CharUpper(c) == IF IsLower(c) THEN ToUpper[c] ELSE c

Lower(s) == [i \in DOMAIN s |-> CharLower(s[i])]
Upper(s) == [i \in DOMAIN s |-> CharUpper(s[i])]

StartsWith(s, p) == Len(s) >= Len(p) /\ SubSeq(s, 1, Len(p)) = p

\* Python's "sub in s"
Contains(sub, s) ==
    \E i \in 0..(Len(s) - Len(sub)) : SubSeq(s, i + 1, i + Len(sub)) = sub

\* index of the first occurrence of sub in s, 0 when there is none
Find(s, sub) ==
    IF Contains(sub, s)
    THEN 1 + CHOOSE i \in 0..(Len(s) - Len(sub)) :
                /\ SubSeq(s, i + 1, i + Len(sub)) = sub
                /\ \A j \in 0..(i - 1) : SubSeq(s, j + 1, j + Len(sub)) # sub
    ELSE 0

\* str.strip()
Strip(s) ==
    LET keep == {i \in DOMAIN s : ~IsSpace(s[i])}
    IN  IF keep = {} THEN <<>>
        ELSE LET lo == CHOOSE i \in keep : \A j \in keep : i <= j
                 hi == CHOOSE i \in keep : \A j \in keep : i >= j
             IN  SubSeq(s, lo, hi)

\* str.replace(ch, "") for a one-character ch
RemoveChar(s, ch) == SelectSeq(s, LAMBDA c : c # ch)

\* s.split(sep)[0] for a non-empty sep
SplitFirst(s, sep) ==
    IF Find(s, sep) = 0 THEN s ELSE SubSeq(s, 1, Find(s, sep) - 1)

\* s.split(ch)[-1] for a one-character ch
SplitLast(s, ch) ==
    LET at == {i \in DOMAIN s : s[i] = ch}
    IN  IF at = {} THEN s
        ELSE SubSeq(s, 1 + (CHOOSE i \in at : \A j \in at : i >= j), Len(s))

\* s.split(ch) for a one-character ch
RECURSIVE Split(_, _)
Split(s, ch) ==
    IF Find(s, <<ch>>) = 0 THEN <<s>>
    ELSE <<SubSeq(s, 1, Find(s, <<ch>>) - 1)>>
         \o Split(SubSeq(s, Find(s, <<ch>>) + 1, Len(s)), ch)

\* ch.join(parts)
RECURSIVE Join(_, _)
Join(parts, ch) ==
    IF Len(parts) = 0 THEN <<>>
    ELSE IF Len(parts) = 1 THEN parts[1]
    ELSE parts[1] \o <<ch>> \o Join(Tail(parts), ch)

\* int(s) for a string of decimal digits
RECURSIVE StrToInt(_)
StrToInt(s) ==
    IF Len(s) = 0 THEN 0
    ELSE 10 * StrToInt(SubSeq(s, 1, Len(s) - 1))
         + DigitValue[s[Len(s)]]

\* str(n) for an integer n
RECURSIVE NatToStr(_)
NatToStr(n) ==
    IF n < 10 THEN <<DigitChars[n + 1]>>
    ELSE NatToStr(n \div 10) \o <<DigitChars[(n % 10) + 1]>>
IntToStr(n) == IF n < 0 THEN <<"-">> \o NatToStr(0 - n) ELSE NatToStr(n)

(***************************************************************************)
(* dict operations on sequences of <<key, value>> pairs.                   *)
(***************************************************************************)
Has(d, k) == \E i \in DOMAIN d : d[i][1] = k
Index(d, k) == CHOOSE i \in DOMAIN d : d[i][1] = k
\* d[k] for a key that is present
At(d, k) == d[Index(d, k)][2]
\* d.get(k) for a dict whose values are strings
Get(d, k) == IF Has(d, k) THEN At(d, k) ELSE None
\* d[k] = v
Put(d, k, v) ==
    IF Has(d, k)
    THEN [i \in DOMAIN d |-> IF d[i][1] = k THEN <<k, v>> ELSE d[i]]
    ELSE Append(d, <<k, v>>)
\* d.setdefault(k, v)
SetDefault(d, k, v) == IF Has(d, k) THEN d ELSE Append(d, <<k, v>>)
Keys(d) == [i \in DOMAIN d |-> d[i][1]]
KeySet(d) == {d[i][1] : i \in DOMAIN d}
ValueSet(d) == {d[i][2] : i \in DOMAIN d}

\* sorted(names, key=len)[0]: the first of the shortest names (the sort is stable)
ShortestFirst(names) ==
    names[CHOOSE i \in DOMAIN names :
            \A j \in DOMAIN names :
                \/ Len(names[j]) > Len(names[i])
                \/ (Len(names[j]) = Len(names[i]) /\ j >= i)]

(***************************************************************************)
(* Literals of the source.                                                 *)
(***************************************************************************)
field_ == <<"f","i","e","l","d","_">>
term_ == <<"t","e","r","m","_">>
TGMD_ == <<"T","G","M","D","_">>
QID == <<"Q","I","D">>

(***************************************************************************)
(* _normalize_lookup_key                                                   *)
(***************************************************************************)
\* a normalization that keeps the letter case
NormalizeKeepingCase(key) == SelectSeq(RemoveChar(Strip(key), "\""), IsAlnum)

\* a normalization that keeps the non-alphanumeric characters
NormalizeKeepingPunctuation(key) == Lower(RemoveChar(Strip(key), "\""))

_normalize_lookup_key(key) ==
    LET cleaned == Lower(RemoveChar(Strip(key), "\""))
    IN  SelectSeq(cleaned, IsAlnum)

(***************************************************************************)
(* _strip_tgmd_trial_suffix                                                *)
(***************************************************************************)
_strip_tgmd_trial_suffix(name) ==
    IF ~StartsWith(name, TGMD_) THEN name
    ELSE LET base == SplitFirst(name, <<"_","t">>)
             parts == Split(base, "_")
         IN  IF /\ Len(parts) >= 3
                /\ Len(parts[2]) = 3
                /\ \A i \in 1..3 : IsDigit(parts[2][i])
                /\ parts[2][2] = "2"
             THEN Join([parts EXCEPT ![2] = IntToStr(StrToInt(parts[2]) - 10)], "_")
             ELSE base

(***************************************************************************)
(* _choose_best_field_name                                                 *)
(***************************************************************************)
\* variant: the first candidate instead of the shortest one
ChooseFirstFieldName(field_names) ==
    LET meaningful_names == SelectSeq(field_names, LAMBDA n : ~StartsWith(n, field_))
    IN  IF Len(meaningful_names) > 0
        THEN meaningful_names[1]
        ELSE field_names[1]

_choose_best_field_name(field_names) ==
    LET meaningful_names == SelectSeq(field_names, LAMBDA n : ~StartsWith(n, field_))
    IN  IF Len(meaningful_names) > 0
        THEN ShortestFirst(meaningful_names)
        ELSE ShortestFirst(field_names)

(***************************************************************************)
(* deduplicate_fields                                                      *)
(***************************************************************************)
\* lines 94-96: value -> the names that carry it, in order of appearance
RECURSIVE GroupByValue(_, _)
GroupByValue(fs, value_to_fields) ==
    IF Len(fs) = 0 THEN value_to_fields
    ELSE LET field_name == fs[1][1]
             field_value == fs[1][2]
         IN  GroupByValue(Tail(fs),
                IF Has(value_to_fields, field_value)
                THEN Put(value_to_fields, field_value,
                         Append(At(value_to_fields, field_value), field_name))
                ELSE Append(value_to_fields, <<field_value, <<field_name>>>>))

\* deduplicated[name] = value for every name of names
RECURSIVE PutAll(_, _, _)
PutAll(d, names, value) ==
    IF Len(names) = 0 THEN d
    ELSE PutAll(Put(d, names[1], value), Tail(names), value)

\* variant: every group of two or more names is collapsed
DedupGroupAlwaysCollapse(dedup, field_value, field_names) ==
    IF Len(field_names) = 1
    THEN Put(dedup, field_names[1], field_value)
    ELSE Put(dedup, _choose_best_field_name(field_names), field_value)

\* variant: a group with placeholders loses only its first placeholder
DedupGroupDropOnePlaceholder(dedup, field_value, field_names) ==
    IF Len(field_names) = 1
    THEN Put(dedup, field_names[1], field_value)
    ELSE IF \A i \in DOMAIN field_names : ~StartsWith(field_names[i], field_)
    THEN PutAll(dedup, field_names, field_value)
    ELSE LET p == CHOOSE i \in DOMAIN field_names :
                    /\ StartsWith(field_names[i], field_)
                    /\ \A j \in 1..(i - 1) : ~StartsWith(field_names[j], field_)
         IN  PutAll(dedup, SubSeq(field_names, 1, p - 1)
                            \o SubSeq(field_names, p + 1, Len(field_names)), field_value)

\* lines 99-112, one group
DedupGroup(dedup, field_value, field_names) ==
    IF Len(field_names) = 1
    THEN Put(dedup, field_names[1], field_value)
    ELSE IF \A i \in DOMAIN field_names : ~StartsWith(field_names[i], field_)
    THEN PutAll(dedup, field_names, field_value)
    ELSE Put(dedup, _choose_best_field_name(field_names), field_value)

\* lines 98-112: the value-grouping pass
RECURSIVE DedupGroups(_, _)
DedupGroups(value_to_fields, dedup) ==
    IF Len(value_to_fields) = 0 THEN dedup
    ELSE DedupGroups(Tail(value_to_fields),
            DedupGroup(dedup, value_to_fields[1][1], value_to_fields[1][2]))

ValueGroupingPass(fs) == DedupGroups(GroupByValue(fs, <<>>), <<>>)

\* variant: the prefixed value is stored under the base name without the
\* collision test
TermStepOverwrite(dedup, norm, name, value) ==
    IF StartsWith(name, term_)
    THEN Put(norm, SubSeq(name, 6, Len(name)), value)
    ELSE Put(norm, name, value)

\* lines 115-122, one entry of deduplicated
TermStep(dedup, norm, name, value) ==
    IF StartsWith(name, term_)
    THEN LET base_name == SubSeq(name, 6, Len(name))
         IN  IF Has(dedup, base_name) \/ Has(norm, base_name)
             THEN norm
             ELSE Put(norm, base_name, value)
    ELSE Put(norm, name, value)

\* lines 114-122: the termination-prefix pass
RECURSIVE TermPass(_, _, _)
TermPass(dedup, i, norm) ==
    IF i > Len(dedup) THEN norm
    ELSE TermPass(dedup, i + 1,
            TermStep(dedup, norm, dedup[i][1], dedup[i][2]))

deduplicate_fields(fs) ==
    LET dedup == ValueGroupingPass(fs)
    IN  TermPass(dedup, 1, <<>>)

(***************************************************************************)
(* _fuzzy_find_in_mapping and the key order parse_pdf_to_csv hands to it.  *)
(***************************************************************************)
\* one step of the stable sort by descending length: k goes after every key
\* that is at least as long
InsertByLenDesc(sorted, k) ==
    LET pos == Cardinality({i \in DOMAIN sorted : Len(sorted[i]) >= Len(k)})
    IN  SubSeq(sorted, 1, pos) \o <<k>> \o SubSeq(sorted, pos + 1, Len(sorted))

RECURSIVE SortFrom(_, _)
SortFrom(keys, sorted) ==
    IF Len(keys) = 0 THEN sorted
    ELSE SortFrom(Tail(keys), InsertByLenDesc(sorted, keys[1]))

\* variant: ascending length (reverse=True left out)
SortedByLenAsc(m) ==
    LET desc == SortFrom(Keys(m), <<>>)
    IN  [i \in DOMAIN desc |-> desc[Len(desc) + 1 - i]]

\* sorted(mapping.keys(), key=len, reverse=True)
sorted_mapping_keys(m) == SortFrom(Keys(m), <<>>)

_fuzzy_find_in_mapping(normalized_text, sorted_keys) ==
    LET text == _normalize_lookup_key(normalized_text)
        hits == {i \in DOMAIN sorted_keys :
                    Contains(_normalize_lookup_key(sorted_keys[i]), text)}
    IN  IF hits = {} THEN None
        ELSE sorted_keys[CHOOSE i \in hits : \A j \in hits : i <= j]

(***************************************************************************)
(* HEADER_MAPPING                                                          *)
(***************************************************************************)
HEADER_MAPPING ==
    << <<<<"c","o","r","e"," ","i","d">>, <<"c","o","r","e","-","i","d">>>>,
       <<<<"s","t","u","d","e","n","t"," ","n","a","m","e">>, <<"c","h","i","l","d","-","n","a","m","e">>>>,
       <<<<"c","l","a","s","s"," ","i","d"," ","2","5","/","2","6">>, <<"c","l","a","s","s","-","i","d">>>>,
       <<<<"s","t","u","d","e","n","t"," ","i","d">>, <<"s","t","u","d","e","n","t","-","i","d">>>>,
       <<<<"s","c","h","o","o","l"," ","i","d">>, <<"s","c","h","o","o","l","-","i","d">>>>,
       <<<<"s","c","h","o","o","l"," ","c","o","d","e">>, <<"s","c","h","o","o","l","-","i","d">>>>,
       <<<<"s","c","h","o","o","l"," ","n","a","m","e"," ","(","c","h","i","n","e","s","e",")">>, <<"s","c","h","o","o","l","-","n","a","m","e">>>>,
       <<<<"c","l","a","s","s"," ","i","d">>, <<"c","l","a","s","s","-","i","d">>>>,
       <<<<"a","c","t","u","a","l"," ","c","l","a","s","s"," ","n","a","m","e">>, <<"c","l","a","s","s","-","n","a","m","e">>>>,
       <<<<"g","e","n","d","e","r">>, <<"g","e","n","d","e","r">>>>,
       <<<<"g","r","o","u","p">>, <<"g","r","o","u","p">>>> >>

(***************************************************************************)
(* load_pdf_qualtrics_mapping: the mapping built from the entries of       *)
(* qualtrics-mapping.json (internal name -> PDF field), in file order.     *)
(***************************************************************************)
TEC_F_ == <<"T","E","C","_","F","_">>
TEC_M_ == <<"T","E","C","_","M","_">>
TEC_G_ == <<"T","E","C","_","G","_">>
TEC_B_ == <<"T","E","C","_","B","_">>

\* lines 1033-1036: the base PDF name and both trial spellings
LoadTgmdVariants(m, base_internal, pdf_field) ==
    IF StartsWith(base_internal, TGMD_)
    THEN LET base_pdf == _strip_tgmd_trial_suffix(pdf_field)
             v1 == Put(m, _normalize_lookup_key(base_pdf), base_internal)
             v2 == Put(v1, _normalize_lookup_key(base_pdf \o <<"_","t","1">>), base_internal)
         IN  Put(v2, _normalize_lookup_key(base_pdf \o <<"_","t","2">>), base_internal)
    ELSE m

\* lines 1041-1046: the legacy G/B spelling of TEC_F_/TEC_M_
LoadTecAlias(m, base_internal) ==
    IF StartsWith(base_internal, TEC_F_)
    THEN Put(m, _normalize_lookup_key(TEC_G_ \o SubSeq(base_internal, 7, Len(base_internal))),
             base_internal)
    ELSE IF StartsWith(base_internal, TEC_M_)
    THEN Put(m, _normalize_lookup_key(TEC_B_ \o SubSeq(base_internal, 7, Len(base_internal))),
             base_internal)
    ELSE m

\* an entry expanded without the canonical name itself
LoadEntryWithoutCanonical(m, internal_name, pdf_field) ==
    IF pdf_field = <<>> THEN m
    ELSE LET base_internal == _strip_tgmd_trial_suffix(internal_name)
             m1 == Put(m, _normalize_lookup_key(pdf_field), base_internal)
         IN  LoadTecAlias(LoadTgmdVariants(m1, base_internal, pdf_field), base_internal)

\* lines 1020-1048, one entry of the configuration
LoadEntry(m, internal_name, pdf_field) ==
    IF pdf_field = <<>> THEN m
    ELSE LET base_internal == _strip_tgmd_trial_suffix(internal_name)
             m1 == Put(m, _normalize_lookup_key(pdf_field), base_internal)
             m2 == SetDefault(m1, _normalize_lookup_key(base_internal), base_internal)
         IN  LoadTecAlias(LoadTgmdVariants(m2, base_internal, pdf_field), base_internal)

RECURSIVE LoadFrom(_, _)
LoadFrom(mapping_data, m) ==
    IF Len(mapping_data) = 0 THEN m
    ELSE LoadFrom(Tail(mapping_data),
                  LoadEntry(m, mapping_data[1][1], mapping_data[1][2]))

load_pdf_qualtrics_mapping(mapping_data) == LoadFrom(mapping_data, <<>>)

(***************************************************************************)
(* parse_pdf_to_csv, lines 655-729: one raw field.                         *)
(* A raw field is [name, is_obj, alt, value]: value_obj is a plain string  *)
(* (is_obj FALSE, value the string) or a field object (is_obj TRUE) with   *)
(* alt its /TU or /TM entry and value its .value, each a string or None.   *)
(***************************************************************************)
\* Python truthiness of a str-or-None
Truthy(x) == x # None /\ x # <<>>

\* lines 657-663
ActualFieldName(f) ==
    IF f.is_obj /\ Truthy(f.alt) /\ Contains(QID, Upper(f.alt))
    THEN f.alt
    ELSE f.name

\* found_key = _fuzzy_find_in_mapping(...); if found_key: mapped_key = mapping[found_key]
FuzzyMappedKey(m, sk, text) ==
    LET found_key == _fuzzy_find_in_mapping(text, sk)
    IN  IF Truthy(found_key) THEN At(m, found_key) ELSE None


\* line 666
ExactStep(m, actual_field_name) ==
    LET first == Get(m, _normalize_lookup_key(actual_field_name))
    IN  IF Truthy(first) THEN first ELSE Get(m, Lower(actual_field_name))

\* lines 668-674
FuzzyStep(m, sk, actual_field_name, mapped_key) ==
    IF mapped_key = None
    THEN FuzzyMappedKey(m, sk, _normalize_lookup_key(actual_field_name))
    ELSE mapped_key

\* lines 676-687
PartialStep(m, sk, actual_field_name, mapped_key) ==
    IF mapped_key = None
    THEN LET partial_name == SplitLast(actual_field_name, ".")
         IN  IF partial_name # actual_field_name
             THEN LET normalized_partial_name == _normalize_lookup_key(partial_name)
                  IN  IF Get(m, normalized_partial_name) = None
                      THEN FuzzyMappedKey(m, sk, normalized_partial_name)
                      ELSE Get(m, normalized_partial_name)
             ELSE None
    ELSE mapped_key

\* variant: the retry uses the field name as it is, trial markers included
TgmdStepNoStrip(m, sk, actual_field_name, mapped_key) ==
    IF mapped_key = None /\ StartsWith(actual_field_name, TGMD_)
    THEN LET normalized_base == _normalize_lookup_key(actual_field_name)
         IN  IF Get(m, normalized_base) = None
             THEN FuzzyMappedKey(m, sk, normalized_base)
             ELSE Get(m, normalized_base)
    ELSE mapped_key

\* lines 691-704
TgmdStep(m, sk, actual_field_name, mapped_key) ==
    IF mapped_key = None /\ StartsWith(actual_field_name, TGMD_)
    THEN LET base_name == _strip_tgmd_trial_suffix(actual_field_name)
             normalized_base == _normalize_lookup_key(base_name)
         IN  IF Get(m, normalized_base) = None
             THEN FuzzyMappedKey(m, sk, normalized_base)
             ELSE Get(m, normalized_base)
    ELSE mapped_key

\* lines 707-712
HeaderStep(actual_field_name, mapped_key) ==
    IF mapped_key = None
    THEN LET normalized_field == Lower(RemoveChar(Strip(actual_field_name), "\""))
             header_mapped == Get(HEADER_MAPPING, normalized_field)
         IN  IF Truthy(header_mapped) THEN header_mapped ELSE None
    ELSE mapped_key

\* lines 665-712: the mapped_key after all strategies
MappedKey(m, sk, actual_field_name) ==
    HeaderStep(actual_field_name,
        TgmdStep(m, sk, actual_field_name,
            PartialStep(m, sk, actual_field_name,
                FuzzyStep(m, sk, actual_field_name,
                    ExactStep(m, actual_field_name)))))

\* key.lower() when key.upper().startswith("QID")
FoldQid(k) == IF StartsWith(Upper(k), QID) THEN Lower(k) ELSE k

\* lines 714-716
OutputKey(mapped_key, actual_field_name) ==
    FoldQid(IF Truthy(mapped_key) THEN mapped_key ELSE actual_field_name)

\* lines 720-729
ProcessedValue(f) ==
    IF f.value # None
    THEN IF StartsWith(f.value, <<"/">>) THEN Tail(f.value) ELSE f.value
    ELSE <<>>

\* what the loop body computes for raw field f
Resolution(m, sk, f) ==
    LET actual_field_name == ActualFieldName(f)
        mapped_key == MappedKey(m, sk, actual_field_name)
    IN  [ name |-> f.name,
          actual_field_name |-> actual_field_name,
          mapped_key |-> mapped_key,
          key |-> OutputKey(mapped_key, actual_field_name),
          value |-> ProcessedValue(f) ]

\* variant: only a field that found a mapping is recorded
RecordMappedOnly(d, r) ==
    IF Truthy(r.mapped_key) THEN Put(d, r.key, r.value) ELSE d

\* lines 724-729: data[key] = processed_value
RecordEntry(d, r) == Put(d, r.key, r.value)

\* lines 652-729: the loop over raw_fields
RECURSIVE RecordFrom(_, _)
RecordFrom(resolutions, d) ==
    IF Len(resolutions) = 0 THEN d
    ELSE RecordFrom(Tail(resolutions), RecordEntry(d, resolutions[1]))

Resolutions(raw_fields, m) ==
    LET sk == sorted_mapping_keys(m)
    IN  [i \in DOMAIN raw_fields |-> Resolution(m, sk, raw_fields[i])]

(***************************************************************************)
(* parse_pdf_to_csv, lines 731-751: the autosave merge.                    *)
(* A sidecar is [exists, readable, is_dict, data]: readable when the file  *)
(* parses as a JSON object, is_dict when its 'data' is an object, data the *)
(* entries of that object; a value that is no string is NonString.         *)
(***************************************************************************)
NonString == <<"<non-string>">>

\* variant: the autosave value always replaces the parsed one
MergeEntryOverwrite(d, k, v) ==
    IF v # NonString THEN Put(d, FoldQid(k), v) ELSE d

\* lines 737-749, one entry
MergeEntry(d, k, v) ==
    IF v # NonString
    THEN LET key == FoldQid(k)
             existing == Get(d, key)
         IN  IF existing = None \/ existing = <<>> THEN Put(d, key, v) ELSE d
    ELSE d

RECURSIVE MergeFrom(_, _)
MergeFrom(autosave_fields, d) ==
    IF Len(autosave_fields) = 0 THEN d
    ELSE MergeFrom(Tail(autosave_fields),
                   MergeEntry(d, autosave_fields[1][1], autosave_fields[1][2]))

AutosaveMerged(sidecar, d) ==
    IF sidecar.exists /\ sidecar.readable /\ sidecar.is_dict
    THEN MergeFrom(sidecar.data, d)
    ELSE d

(***************************************************************************)
(* parse_pdf_to_csv, lines 768-819: the sessionkey check.                  *)
(***************************************************************************)
sessionkey == <<"s","e","s","s","i","o","n","k","e","y">>

\* variant: the disabled line 786, data["sessionkey"] = canonical_key
SessionkeyOverwritten(d, canonical_key) ==
    IF Get(d, sessionkey) # canonical_key THEN Put(d, sessionkey, canonical_key) ELSE d

\* lines 776-791: the record after the check
SessionkeyChecked(d, canonical_key) == d

\* lines 778-791: the line logged
SessionkeyLog(d, canonical_key) ==
    IF Truthy(canonical_key)
    THEN IF Get(d, sessionkey) # canonical_key
         THEN <<"SESSIONKEY MISMATCH">>
         ELSE <<"Sessionkey validation: matches filename">>
    ELSE <<>>

(***************************************************************************)
(* Specification of deduplicate_fields on bounded field maps.              *)
(***************************************************************************)
MaxDedupFields == 4

DedupNames ==
    { <<"X">>, <<"A">>,
      term_ \o <<"X">>,
      term_ \o term_ \o <<"X">>,
      term_ \o <<"A">>,
      field_ \o <<"1">>,
      field_ \o <<"0","0","3">>,
      term_ \o field_ \o <<"1">>,
      <<"E","R","V","_","P","1">>,
      <<"E","R","V","_","P","2">> }
DedupValues == { <<"4">>, <<"5">> }

Injective(q) == \A i, j \in DOMAIN q : q[i] = q[j] => i = j

InitDedup ==
    /\ pc = "dedup_call"
    /\ \E k \in 0..MaxDedupFields :
        \E ns \in [1..k -> DedupNames], vs \in [1..k -> DedupValues] :
            /\ Injective(ns)
            /\ fields = [i \in 1..k |-> <<ns[i], vs[i]>>]
    /\ deduplicated = <<>>
    /\ normalized = <<>>
    /\ pdf = <<>>
    /\ mapping = <<>>
    /\ data = <<>>
    /\ trail = <<>>
    /\ log = <<>>
    /\ fuzzy = <<>>
    /\ files = {}
    /\ extraction = <<>>
    /\ loader = <<>>
    /\ normalizing = <<>>
    /\ cli = <<>>
    /\ mapped = <<>>
    /\ stripping = <<>>

\* deduplicate_fields, lines 94-112
DedupValueGrouping ==
    /\ pc = "dedup_call"
    /\ deduplicated' = ValueGroupingPass(fields)
    /\ pc' = "dedup_grouped"
    /\ UNCHANGED <<fields, normalized, pdf, mapping, data, trail, log, fuzzy, files, extraction, loader, normalizing, cli, mapped, stripping>>

\* deduplicate_fields, lines 114-124
DedupTermination ==
    /\ pc = "dedup_grouped"
    /\ normalized' = TermPass(deduplicated, 1, <<>>)
    /\ pc' = "dedup_done"
    /\ UNCHANGED <<fields, deduplicated, pdf, mapping, data, trail, log, fuzzy, files, extraction, loader, normalizing, cli, mapped, stripping>>

NextDedup == DedupValueGrouping \/ DedupTermination
SpecDedup == InitDedup /\ [][NextDedup]_vars

(***************************************************************************)
(* Specification of parse_pdf_to_csv on bounded inputs: a PDF with up to   *)
(* MaxRawFields raw fields, an optional autosave sidecar, and a mapping    *)
(* table that is either built by load_pdf_qualtrics_mapping or the         *)
(* reversed pdfmapping.json of the command line tool.                      *)
(***************************************************************************)
MaxRawFields == 2

Stem == <<"1","0","0","3","4","_","2","0","2","5","0","1","0","2","_","1">>

RawFieldPool ==
    { [name |-> <<"S","t","u","d","e","n","t"," ","I","D">>, is_obj |-> FALSE, alt |-> None, value |-> <<"C","1","0","0","1">>],
      [name |-> <<"Q","I","D","3">>, is_obj |-> FALSE, alt |-> None, value |-> <<"/","O","f","f">>],
      [name |-> <<"Q","I","D","3">>, is_obj |-> FALSE, alt |-> None, value |-> <<>>],
      [name |-> <<"s","e","s","s","i","o","n","k","e","y">>, is_obj |-> FALSE, alt |-> None, value |-> <<"1","0","0","3","4","_","2","0","2","5","0","1","0","1","_","1">>],
      [name |-> <<"s","e","s","s","i","o","n","k","e","y">>, is_obj |-> FALSE, alt |-> None, value |-> <<"1","0","0","3","4","_","2","0","2","5","0","1","0","2","_","1">>],
      [name |-> <<"f","i","e","l","d","_","0","0","3">>, is_obj |-> FALSE, alt |-> None, value |-> <<"4">>],
      [name |-> <<"E","R","V","_","P","1">>, is_obj |-> FALSE, alt |-> None, value |-> <<"4">>],
      [name |-> <<"E","R","V","_","P","2">>, is_obj |-> FALSE, alt |-> None, value |-> <<"4">>],
      [name |-> <<"t","e","r","m","_","E","R","V","_","P","1">>, is_obj |-> FALSE, alt |-> None, value |-> <<"5">>],
      [name |-> <<"T","G","M","D","_","1","1","1","_","H","o","p">>, is_obj |-> FALSE, alt |-> None, value |-> <<"1">>],
      [name |-> <<"T","G","M","D","_","1","1","1","_","H","o","p","_","t","1">>, is_obj |-> FALSE, alt |-> None, value |-> <<"1">>],
      [name |-> <<"T","G","M","D","_","1","1","1","_","H","o","p","_","t","2">>, is_obj |-> FALSE, alt |-> None, value |-> <<"0">>],
      [name |-> <<"T","G","M","D","_","1","2","1","_","H","o","p">>, is_obj |-> FALSE, alt |-> None, value |-> <<"0">>],
      [name |-> <<"S","t","u","d","e","n","t","-","I","D","-","2","0","2","5">>, is_obj |-> FALSE, alt |-> None, value |-> <<"C","1","0","0","1">>],
      [name |-> <<"p","1",".","E","R","V","_","P","1">>, is_obj |-> FALSE, alt |-> None, value |-> <<"4">>],
      [name |-> <<"f","i","e","l","d","_","0","0","7">>, is_obj |-> TRUE, alt |-> <<"Q","I","D","3">>, value |-> <<"2">>],
      [name |-> <<"T","e","x","t","1">>, is_obj |-> TRUE, alt |-> <<"A","n","s","w","e","r">>, value |-> None],
      [name |-> <<"t","e","r","m","_","Q","I","D","3">>, is_obj |-> FALSE, alt |-> None, value |-> <<"2">>] }

RawFieldLists(n) ==
    { fs \in UNION { [1..k -> RawFieldPool] : k \in 0..n } :
        \A i, j \in DOMAIN fs : fs[i].name = fs[j].name => i = j }

\* qualtrics-mapping.json: a TGMD task under its own name
ConfigTgmd ==
    << <<<<"T","G","M","D","_","1","1","1","_","H","o","p">>, <<"T","G","M","D","_","1","1","1","_","H","o","p">>>>,
       <<<<"s","t","u","d","e","n","t","-","i","d">>, <<"S","t","u","d","e","n","t"," ","I","D">>>> >>
\* qualtrics-mapping.json: a TGMD task under a platform identifier
ConfigTgmdQid ==
    << <<<<"T","G","M","D","_","1","1","1","_","H","o","p">>, <<"Q","I","D","5","_","1">>>>,
       <<<<"E","R","V","_","P","1">>, <<"Q","I","D","7">>>> >>
\* qualtrics-mapping.json: a TGMD task next to a field whose name is part of the task's
ConfigTgmdHop ==
    << <<<<"T","G","M","D","_","1","1","1","_","H","o","p">>, <<"Q","I","D","5","_","1">>>>,
       <<<<"H","o","p">>, <<"Q","I","D","6">>>> >>
\* pdfmapping.json (friendly name -> PDF field): two spellings of one label
PdfMappingSpellings ==
    << <<<<"s","t","u","d","e","n","t","-","i","d">>, <<"s","t","u","d","e","n","t"," ","i","d">>>>,
       <<<<"s","i","d","-","l","e","g","a","c","y">>, <<"S","t","u","d","e","n","t","_","I","D","_">>>> >>
\* pdfmapping.json: a friendly name and the display label of its PDF field
PdfMappingLabel ==
    << <<<<"s","t","u","d","e","n","t","-","i","d">>, <<"S","t","u","d","e","n","t"," ","I","D">>>> >>
\* pdfmapping.json: a platform identifier and an entry without PDF field
PdfMappingQid ==
    << <<<<"e","r","v","-","p","1">>, <<"Q","I","D","3">>>>,
       <<<<"n","o","t","e","s">>, <<>>>> >>

\* parse_pdf_cli.py line 60: pdf_to_friendly = {v: k for k, v in friendly_to_pdf.items()}
RECURSIVE ReverseFrom(_, _)
ReverseFrom(friendly_to_pdf, m) ==
    IF Len(friendly_to_pdf) = 0 THEN m
    ELSE ReverseFrom(Tail(friendly_to_pdf),
                     Put(m, friendly_to_pdf[1][2], friendly_to_pdf[1][1]))
pdf_to_friendly(friendly_to_pdf) == ReverseFrom(friendly_to_pdf, <<>>)

LoadedTables ==
    { load_pdf_qualtrics_mapping(c) : c \in {ConfigTgmd, ConfigTgmdQid, ConfigTgmdHop} }
CliTables ==
    { pdf_to_friendly(c) : c \in {PdfMappingSpellings, PdfMappingQid, PdfMappingLabel, <<>>} }
MappingTables == LoadedTables \cup CliTables

NoSidecar == [exists |-> FALSE, readable |-> FALSE, is_dict |-> FALSE, data |-> <<>>]
Sidecars ==
    { NoSidecar,
      [exists |-> TRUE, readable |-> FALSE, is_dict |-> FALSE, data |-> <<>>],
      [exists |-> TRUE, readable |-> TRUE, is_dict |-> FALSE, data |-> <<>>],
      [exists |-> TRUE, readable |-> TRUE, is_dict |-> TRUE, data |->
        << <<<<"s","t","u","d","e","n","t","-","i","d">>, <<"C","9">>>>,
           <<<<"Q","I","D","3">>, <<"Y">>>>,
           <<<<"q","i","d","3">>, <<"Z">>>>,
           <<<<"E","R","V","_","P","2">>, NonString>> >>],
      [exists |-> TRUE, readable |-> TRUE, is_dict |-> TRUE, data |->
        << <<<<"E","R","V","_","P","1">>, <<"7">>>>,
           <<sessionkey, Stem>>,
           <<<<"f","i","e","l","d","_","0","0","9">>, <<"4">>>>,
           <<<<"Q","I","D","3">>, <<>> >> >>] }

InitParse ==
    /\ pc = "parse_call"
    /\ pdf \in [stem : {Stem}, raw_fields : RawFieldLists(MaxRawFields), sidecar : Sidecars]
    /\ mapping \in MappingTables
    /\ data = <<>>
    /\ trail = <<>>
    /\ log = <<>>
    /\ fuzzy = <<>>
    /\ fields = <<>>
    /\ deduplicated = <<>>
    /\ normalized = <<>>
    /\ files = {}
    /\ extraction = <<>>
    /\ loader = <<>>
    /\ normalizing = <<>>
    /\ cli = <<>>
    /\ mapped = <<>>
    /\ stripping = <<>>

\* lines 647-650: no raw field at all
RaiseNoFields ==
    /\ pc = "parse_call"
    /\ Len(pdf.raw_fields) = 0
    /\ pc' = "raised"
    /\ UNCHANGED <<fields, deduplicated, normalized, pdf, mapping, data, trail, log, fuzzy, files, extraction, loader, normalizing, cli, mapped, stripping>>

\* lines 652-729
MapFields ==
    /\ pc = "parse_call"
    /\ Len(pdf.raw_fields) > 0
    /\ trail' = Resolutions(pdf.raw_fields, mapping)
    /\ data' = RecordFrom(trail', <<>>)
    /\ pc' = "mapped"
    /\ UNCHANGED <<fields, deduplicated, normalized, pdf, mapping, log, fuzzy, files, extraction, loader, normalizing, cli, mapped, stripping>>

\* lines 731-751
AutosaveMerge ==
    /\ pc = "mapped"
    /\ data' = AutosaveMerged(pdf.sidecar, data)
    /\ pc' = "merged"
    /\ UNCHANGED <<fields, deduplicated, normalized, pdf, mapping, trail, log, fuzzy, files, extraction, loader, normalizing, cli, mapped, stripping>>

\* line 753
ParseDeduplicate ==
    /\ pc = "merged"
    /\ data' = deduplicate_fields(data)
    /\ pc' = "deduplicated"
    /\ UNCHANGED <<fields, deduplicated, normalized, pdf, mapping, trail, log, fuzzy, files, extraction, loader, normalizing, cli, mapped, stripping>>

\* lines 770-774: the stem of the sidecar when it exists, else of the PDF; the
\* sidecar is the PDF's path with the suffix .json, so the stems are equal
CanonicalKey(file) == IF file.sidecar.exists THEN file.stem ELSE file.stem

\* lines 768-819
SessionkeyCheck ==
    /\ pc = "deduplicated"
    /\ data' = SessionkeyChecked(data, CanonicalKey(pdf))
    /\ log' = SessionkeyLog(data, CanonicalKey(pdf))
    /\ pc' = "returned"
    /\ UNCHANGED <<fields, deduplicated, normalized, pdf, mapping, trail, fuzzy, files, extraction, loader, normalizing, cli, mapped, stripping>>

NextParse ==
    \/ RaiseNoFields
    \/ MapFields
    \/ AutosaveMerge
    \/ ParseDeduplicate
    \/ SessionkeyCheck
SpecParse == InitParse /\ [][NextParse]_vars

(***************************************************************************)
(* parse_pdf_to_csv, lines 619-650: structure detection and extraction.    *)
(* A document is [catalog, get_fields, annotations, xfa_xml]: catalog is   *)
(* what the reader finds under /Root (the result of _detect_pdf_type),     *)
(* get_fields the outcome of reader.get_fields() ("raises", or a dict,     *)
(* empty when the call returns None or {}), annotations the dict the page  *)
(* annotations give, xfa_xml the dict the XFA data packet gives.           *)
(* A dict of raw fields is a sequence of <<name, value>> pairs.            *)
(***************************************************************************)
Raises == <<"<raises>">>

\* lines 126-137
_detect_pdf_type(document) == document.catalog

\* lines 153-208: the fields found on the pages
_scan_page_annotations(document) == document.annotations

\* variant: no fallback to the annotation scan
ExtractAcroDirectOnly(document) ==
    IF document.get_fields = Raises THEN <<>> ELSE document.get_fields

\* lines 211-232
_extract_acro_fields(document) ==
    LET got == IF document.get_fields = Raises THEN None ELSE document.get_fields
    IN  IF got = None \/ got = <<>>
        THEN _scan_page_annotations(document)
        ELSE got

\* lines 270-293: every failure is caught and leaves the dict empty
_extract_xfa_xml(document) == document.xfa_xml

\* the helper calls _extract_acro_fields makes on the document named which
AcroCalls(document, which) ==
    << <<"get_fields", which>> >> \o
    (IF document.get_fields = Raises \/ document.get_fields = <<>>
     THEN << <<"_scan_page_annotations", which>> >> ELSE <<>>)

(***************************************************************************)
(* _convert_xfa_with_pdfcpu, lines 235-267. The tool is [launch,           *)
(* returncode, writes_output]: launch is "not_found" (FileNotFoundError),  *)
(* "error" (any other exception of subprocess.run) or "ran". Files are a   *)
(* function from the suffixes present next to the PDF's stem to a version: *)
(* 0 as found at the call, 1 written during the call.                      *)
(***************************************************************************)
AcroPdf == ".acro.pdf"

WriteFile(fs, suffix) ==
    [s \in DOMAIN fs \cup {suffix} |-> IF s = suffix THEN 1 ELSE fs[s]]

\* what pdfcpu leaves on disk: line 244
ToolRun(tool, fs) ==
    IF tool.launch = "ran" /\ tool.writes_output THEN WriteFile(fs, AcroPdf) ELSE fs

\* variant: a missing tool is not caught (no except FileNotFoundError)
ConvertRaisesWhenToolMissing(tool, fs) ==
    LET after == ToolRun(tool, fs)
    IN  [ok |-> tool.launch = "ran" /\ tool.returncode = 0 /\ AcroPdf \in DOMAIN after,
         raised |-> tool.launch = "not_found",
         files |-> after]

\* lines 235-267: result.returncode == 0 and output_path.exists(), and every
\* exception caught
_convert_xfa_with_pdfcpu(tool, fs) ==
    LET after == ToolRun(tool, fs)
    IN  [ok |-> tool.launch = "ran" /\ tool.returncode = 0 /\ AcroPdf \in DOMAIN after,
         raised |-> FALSE,
         files |-> after]

(***************************************************************************)
(* Specification of the extraction stage of parse_pdf_to_csv (lines        *)
(* 619-650) on documents of every classification, with and without the    *)
(* conversion tool, followed by the rest of the function as one step.      *)
(***************************************************************************)
DirectFields == << <<<<"S","t","u","d","e","n","t"," ","I","D">>, <<"C","1","0","0","1">>>> >>
AnnotationFields == << <<<<"Q","I","D","3">>, <<"/","2">>>> >>
XmlFields == << <<<<"E","R","V","_","P","1">>, <<"4">>>> >>

\* the documents a reader can be opened on: without /AcroForm there is no
\* field dictionary and no XFA packet, without /XFA no XFA packet, and a
\* trailer that cannot be read gives nothing at all
Documents ==
    { d \in [catalog : {"AcroForm", "XFA", "No AcroForm", "Unknown"},
             get_fields : {Raises, <<>>, DirectFields},
             annotations : {<<>>, AnnotationFields},
             xfa_xml : {<<>>, XmlFields}] :
        /\ d.catalog = "AcroForm" => d.xfa_xml = <<>>
        /\ d.catalog = "No AcroForm" => d.get_fields = <<>> /\ d.xfa_xml = <<>>
        /\ d.catalog = "Unknown" =>
            d.get_fields = Raises /\ d.annotations = <<>> /\ d.xfa_xml = <<>> }
\* what pdfcpu optimize -xfa off can leave in the output file
ConvertedDocuments == { d \in Documents : d.catalog # "Unknown" /\ d.xfa_xml = <<>> }
Tools ==
    [launch : {"not_found", "error"}, returncode : {1}, writes_output : {FALSE}]
    \cup [launch : {"ran"}, returncode : {0, 1}, writes_output : BOOLEAN]
\* the PDF, with or without its autosave sidecar and the output of an earlier conversion
FileSets ==
    { [s \in {".pdf"} \cup extra |-> 0] : extra \in SUBSET {".json", AcroPdf} }

InitExtract ==
    /\ pc = "extract_call"
    /\ files \in FileSets
    /\ extraction \in [library : BOOLEAN, document : Documents, tool : Tools,
                       converted_document : ConvertedDocuments,
                       pdf_type : {"not detected"}, converted : {"not run"}, calls : {<<>>},
                       raw_fields : {<<>>}, error : {"none"}]
    /\ fields = <<>>
    /\ deduplicated = <<>>
    /\ normalized = <<>>
    /\ pdf = <<>>
    /\ mapping = <<>>
    /\ data = <<>>
    /\ trail = <<>>
    /\ log = <<>>
    /\ fuzzy = <<>>
    /\ loader = <<>>
    /\ normalizing = <<>>
    /\ cli = <<>>
    /\ mapped = <<>>
    /\ stripping = <<>>

otherThanExtraction ==
    <<fields, deduplicated, normalized, pdf, mapping, data, trail, log, fuzzy, loader, normalizing, cli, mapped, stripping>>

\* lines 621-622
RaiseNoLibrary ==
    /\ pc = "extract_call"
    /\ ~extraction.library
    /\ extraction' = [extraction EXCEPT !.error = "PyPDF2 not installed"]
    /\ pc' = "raised"
    /\ UNCHANGED <<files, otherThanExtraction>>

\* line 624
OpenReader ==
    /\ pc = "extract_call"
    /\ extraction.library
    /\ extraction' = [extraction EXCEPT !.calls = Append(@, <<"PdfReader", "original">>)]
    /\ pc' = "opened"
    /\ UNCHANGED <<files, otherThanExtraction>>

\* line 625
DetectType ==
    /\ pc = "opened"
    /\ extraction' = [extraction EXCEPT
                        !.pdf_type = _detect_pdf_type(extraction.document),
                        !.calls = Append(@, <<"_detect_pdf_type", "original">>)]
    /\ pc' = "detected"
    /\ UNCHANGED <<files, otherThanExtraction>>

\* lines 631-633
ExtractAcroForm ==
    /\ pc = "detected"
    /\ extraction.pdf_type = "AcroForm"
    /\ extraction' = [extraction EXCEPT
                        !.raw_fields = _extract_acro_fields(extraction.document),
                        !.calls = @ \o AcroCalls(extraction.document, "original")]
    /\ pc' = "extracted"
    /\ UNCHANGED <<files, otherThanExtraction>>

\* lines 634-637: temp_path = pdf_path.with_suffix('.acro.pdf') and the conversion
ConvertXfa ==
    /\ pc = "detected"
    /\ extraction.pdf_type = "XFA"
    /\ LET r == _convert_xfa_with_pdfcpu(extraction.tool, files)
       IN  /\ files' = r.files
           /\ extraction' = [extraction EXCEPT
                                !.converted = IF r.ok THEN "True" ELSE "False",
                                !.error = IF r.raised THEN "pdfcpu" ELSE @,
                                !.calls = Append(@, <<"_convert_xfa_with_pdfcpu", "original">>)]
           /\ pc' = IF r.raised THEN "raised"
                    ELSE IF r.ok THEN "converted" ELSE "conversion_failed"
    /\ UNCHANGED otherThanExtraction

\* lines 638-640
ExtractConverted ==
    /\ pc = "converted"
    /\ extraction' = [extraction EXCEPT
                        !.raw_fields = _extract_acro_fields(extraction.converted_document),
                        !.calls = Append(@, <<"PdfReader", "converted">>)
                                    \o AcroCalls(extraction.converted_document, "converted")]
    /\ pc' = "extracted"
    /\ UNCHANGED <<files, otherThanExtraction>>

\* lines 641-643
ExtractXfaXml ==
    /\ pc = "conversion_failed"
    /\ extraction' = [extraction EXCEPT
                        !.raw_fields = _extract_xfa_xml(extraction.document),
                        !.calls = Append(@, <<"_extract_xfa_xml", "original">>)]
    /\ pc' = "extracted"
    /\ UNCHANGED <<files, otherThanExtraction>>

\* lines 644-645
RaiseNoFormData ==
    /\ pc = "detected"
    /\ extraction.pdf_type \notin {"AcroForm", "XFA"}
    /\ extraction' = [extraction EXCEPT !.error = "PDF contains no form data"]
    /\ pc' = "raised"
    /\ UNCHANGED <<files, otherThanExtraction>>

\* lines 647-650
RaiseNoFormFields ==
    /\ pc = "extracted"
    /\ extraction.raw_fields = <<>>
    /\ extraction' = [extraction EXCEPT !.error = "No form fields found"]
    /\ pc' = "raised"
    /\ UNCHANGED <<files, otherThanExtraction>>

\* lines 652-819: mapping loop, autosave merge, deduplication and sessionkey
\* check read the sidecar and write no file; none of them raises
MapMergeCheck ==
    /\ pc = "extracted"
    /\ extraction.raw_fields # <<>>
    /\ pc' = "returned"
    /\ UNCHANGED <<files, extraction, otherThanExtraction>>

NextExtract ==
    \/ RaiseNoLibrary
    \/ OpenReader
    \/ DetectType
    \/ ExtractAcroForm
    \/ ConvertXfa
    \/ ExtractConverted
    \/ ExtractXfaXml
    \/ RaiseNoFormData
    \/ RaiseNoFormFields
    \/ MapMergeCheck
SpecExtract == InitExtract /\ [][NextExtract]_vars

(***************************************************************************)
(* Specification of the substring match of parse_pdf_to_csv (lines 653 and *)
(* 665-671) on bounded mapping tables and field names.                     *)
(***************************************************************************)
MaxFuzzyKeys == 2
MaxFuzzyKeyLen == 1
MaxFuzzyNameLen == 2

Strings(alphabet, n) == UNION { [1..k -> alphabet] : k \in 0..n }

FuzzyKeys ==
    Strings({"i", "d", "-"}, MaxFuzzyKeyLen) \cup { <<"i","d">>, <<"s","t","u","d","e","n","t","i","d">> }
FuzzyNames ==
    Strings({"i", "d", "-", "I"}, MaxFuzzyNameLen) \cup { <<"S","t","u","d","e","n","t","-","I","D","-","2","0","2","5">> }
FuzzyIds == << <<"A">>, <<"B">>, <<"C">>, <<"D">> >>
FuzzyTables ==
    { [i \in DOMAIN ks |-> <<ks[i], FuzzyIds[i]>>] :
        ks \in { q \in UNION { [1..k -> FuzzyKeys] : k \in 0..MaxFuzzyKeys } :
                    \A i, j \in DOMAIN q : q[i] = q[j] => i = j } }

InitFuzzy ==
    /\ pc = "fuzzy_call"
    /\ mapping \in FuzzyTables
    /\ fuzzy \in [field_name : FuzzyNames, sorted_keys : {<<>>}, found_key : {None}]
    /\ fields = <<>>
    /\ deduplicated = <<>>
    /\ normalized = <<>>
    /\ pdf = <<>>
    /\ data = <<>>
    /\ trail = <<>>
    /\ log = <<>>
    /\ files = {}
    /\ extraction = <<>>
    /\ loader = <<>>
    /\ normalizing = <<>>
    /\ cli = <<>>
    /\ mapped = <<>>
    /\ stripping = <<>>

\* line 653
SortMappingKeys ==
    /\ pc = "fuzzy_call"
    /\ fuzzy' = [fuzzy EXCEPT !.sorted_keys = sorted_mapping_keys(mapping)]
    /\ pc' = "fuzzy_sorted"
    /\ UNCHANGED <<fields, deduplicated, normalized, pdf, mapping, data, trail, log, files, extraction, loader, normalizing, cli, mapped, stripping>>

\* lines 665 and 669
FuzzyFind ==
    /\ pc = "fuzzy_sorted"
    /\ fuzzy' = [fuzzy EXCEPT !.found_key =
                    _fuzzy_find_in_mapping(_normalize_lookup_key(fuzzy.field_name),
                                           fuzzy.sorted_keys)]
    /\ pc' = "fuzzy_done"
    /\ UNCHANGED <<fields, deduplicated, normalized, pdf, mapping, data, trail, log, files, extraction, loader, normalizing, cli, mapped, stripping>>

NextFuzzy == SortMappingKeys \/ FuzzyFind
SpecFuzzy == InitFuzzy /\ [][NextFuzzy]_vars

(***************************************************************************)
(* Properties of deduplicate_fields (checked under SpecDedup).             *)
(***************************************************************************)
IsPlaceholder(n) == StartsWith(n, field_)
\* the names of fs that carry value v
GroupOf(fs, v) == {fs[i][1] : i \in {j \in DOMAIN fs : fs[j][2] = v}}
\* the names of S none of the others is strictly shorter than
Shortest(S) == {n \in S : \A m \in S : Len(n) <= Len(m)}

\* C4: a placeholder that shares its value with two or more non-placeholder
\* names is the only name of the group that deduplicate_fields drops: every
\* non-placeholder name of the group is a key of the result with that value.
C4_KeepsEveryRealName ==
    pc = "dedup_done" =>
        \A v \in ValueSet(fields) :
            LET G == GroupOf(fields, v)
                real == {n \in G : ~IsPlaceholder(n) /\ ~StartsWith(n, term_)}
            IN  (/\ \E n \in G : IsPlaceholder(n)
                 /\ Cardinality(real) >= 2
                 /\ \A n \in G : ~StartsWith(n, term_))
                => /\ \A n \in real : Has(normalized, n) /\ At(normalized, n) = v
                   /\ \A n \in G : IsPlaceholder(n) => ~Has(normalized, n)

\* C5: of a group of two or more fields with an equal value that holds a
\* placeholder, the value-grouping pass keeps exactly one name: a shortest
\* non-placeholder name if the group has one, otherwise a shortest placeholder.
C5_PlaceholderGroupKeepsOne ==
    pc = "dedup_grouped" =>
        \A v \in ValueSet(fields) :
            LET G == GroupOf(fields, v)
                real == {n \in G : ~IsPlaceholder(n)}
                kept == {n \in G : Has(deduplicated, n)}
            IN  (Cardinality(G) >= 2 /\ \E n \in G : IsPlaceholder(n))
                => /\ Cardinality(kept) = 1
                   /\ \A n \in kept : At(deduplicated, n) = v
                   /\ kept \subseteq (IF real # {} THEN Shortest(real) ELSE Shortest(G))

C5_Witness ==
    /\ pc = "dedup_grouped"
    /\ \E v \in ValueSet(fields) :
        LET G == GroupOf(fields, v)
        IN  /\ Cardinality({n \in G : IsPlaceholder(n)}) >= 2
            /\ Cardinality({n \in G : ~IsPlaceholder(n)}) >= 2
            /\ \E n, m \in G : ~IsPlaceholder(n) /\ ~IsPlaceholder(m) /\ Len(n) < Len(m)
            /\ \E n \in G : Has(deduplicated, n) /\ ~IsPlaceholder(n)

\* C6: every name of a group without placeholder and without term_ name, and
\* the name of every singleton group without term_ prefix, is a key of the
\* result of deduplicate_fields and carries the group's value.
C6_RealGroupsKept ==
    pc = "dedup_done" =>
        \A v \in ValueSet(fields) :
            LET G == GroupOf(fields, v)
            IN  (/\ \A n \in G : ~StartsWith(n, term_)
                 /\ (Cardinality(G) = 1 \/ \A n \in G : ~IsPlaceholder(n)))
                => \A n \in G : Has(normalized, n) /\ At(normalized, n) = v

C6_Witness ==
    /\ pc = "dedup_done"
    /\ \E v \in ValueSet(fields) :
        LET G == GroupOf(fields, v)
        IN  /\ Cardinality(G) >= 3
            /\ \A n \in G : ~StartsWith(n, term_) /\ ~IsPlaceholder(n)
            /\ \A n \in G : Has(normalized, n) /\ At(normalized, n) = v
    /\ \E i \in DOMAIN fields : StartsWith(fields[i][1], term_)

\* C7 as stated: for every input field term_X the result has no key term_X;
\* when X is an input field too the result's X carries the input's value of X,
\* otherwise the result's X carries the value of term_X.
C7_TermCollapseOnInput ==
    pc = "dedup_done" =>
        \A i \in DOMAIN fields :
            StartsWith(fields[i][1], term_) =>
                LET X == SubSeq(fields[i][1], 6, Len(fields[i][1]))
                IN  /\ ~Has(normalized, fields[i][1])
                    /\ Has(normalized, X)
                    /\ At(normalized, X) = (IF Has(fields, X) THEN At(fields, X)
                                            ELSE fields[i][2])

\* C7 amended: for every field term_X that the value-grouping pass keeps, the
\* result has no key term_X; when the pass keeps X too and X has no term_ prefix
\* of its own, the result's X carries the input's value of X; when the pass
\* does not keep X, the result's X carries the value of term_X.
C7_TermCollapseAfterGrouping ==
    pc = "dedup_done" =>
        \A i \in DOMAIN deduplicated :
            StartsWith(deduplicated[i][1], term_) =>
                LET X == SubSeq(deduplicated[i][1], 6, Len(deduplicated[i][1]))
                IN  /\ ~Has(normalized, deduplicated[i][1])
                    /\ (Has(deduplicated, X) /\ ~StartsWith(X, term_))
                        => (Has(normalized, X) /\ At(normalized, X) = At(fields, X))
                    /\ ~Has(deduplicated, X)
                        => (Has(normalized, X) /\ At(normalized, X) = At(fields, deduplicated[i][1]))

C7_Witness ==
    /\ pc = "dedup_done"
    /\ \E i, j \in DOMAIN deduplicated :
        /\ i < j
        /\ deduplicated[j][1] = term_ \o deduplicated[i][1]
        /\ deduplicated[i][2] # deduplicated[j][2]
        /\ ~StartsWith(deduplicated[i][1], term_)
        /\ Get(normalized, deduplicated[i][1]) = deduplicated[i][2]
    /\ \E i \in DOMAIN deduplicated :
        /\ StartsWith(deduplicated[i][1], term_)
        /\ ~Has(deduplicated, SubSeq(deduplicated[i][1], 6, Len(deduplicated[i][1])))

(***************************************************************************)
(* Properties of parse_pdf_to_csv (checked under SpecParse).               *)
(***************************************************************************)
SidecarMerges(sc) == sc.exists /\ sc.readable /\ sc.is_dict
StringEntries(sc) == {i \in DOMAIN sc.data : sc.data[i][2] # NonString}

\* C1 as stated: for every sidecar key k with a string value, a non-empty
\* value the record holds for k is left unchanged by the merge, and when k is
\* absent from the record or empty the record receives the autosave value.
C1_MergeByKey ==
    [][(pc = "mapped" /\ SidecarMerges(pdf.sidecar)) =>
        \A i \in StringEntries(pdf.sidecar) :
            LET k == pdf.sidecar.data[i][1]
                v == pdf.sidecar.data[i][2]
            IN  IF Get(data, k) # None /\ Get(data, k) # <<>>
                THEN Get(data', k) = Get(data, k)
                ELSE Get(data', k) = v]_vars

\* the string values the sidecar gives to keys that fold to kk, in file order
FoldedValues(sc, kk) ==
    LET hit == SelectSeq(sc.data, LAMBDA e : e[2] # NonString /\ FoldQid(e[1]) = kk)
    IN  [i \in DOMAIN hit |-> hit[i][2]]
FirstNonEmpty(vals) ==
    IF \E i \in DOMAIN vals : vals[i] # <<>>
    THEN vals[CHOOSE i \in DOMAIN vals : vals[i] # <<>> /\ \A j \in 1..(i - 1) : vals[j] = <<>>]
    ELSE <<>>

\* C1 amended: the merge addresses the record by the folded key k' (k lower-cased
\* when it starts with QID in any case): a non-empty value the record holds for
\* k' is left unchanged; when k' is absent or empty the record receives under k'
\* the first non-empty string value the sidecar gives to a key folding to k'
\* (the empty string when there is none).
C1_MergeByFoldedKey ==
    [][(pc = "mapped" /\ SidecarMerges(pdf.sidecar)) =>
        \A i \in StringEntries(pdf.sidecar) :
            LET kk == FoldQid(pdf.sidecar.data[i][1])
            IN  IF Get(data, kk) # None /\ Get(data, kk) # <<>>
                THEN Get(data', kk) = Get(data, kk)
                ELSE Get(data', kk) = FirstNonEmpty(FoldedValues(pdf.sidecar, kk))]_vars

C1_Witness ==
    /\ pc = "merged"
    /\ SidecarMerges(pdf.sidecar)
    /\ \E i \in StringEntries(pdf.sidecar), j \in DOMAIN trail :
        /\ trail[j].key = pdf.sidecar.data[i][1]
        /\ trail[j].value # <<>>
        /\ trail[j].value # pdf.sidecar.data[i][2]
        /\ Get(data, trail[j].key) = trail[j].value
    /\ \E i \in StringEntries(pdf.sidecar) :
        /\ \A j \in DOMAIN trail : trail[j].key # pdf.sidecar.data[i][1]
        /\ pdf.sidecar.data[i][2] # <<>>
        /\ Get(data, pdf.sidecar.data[i][1]) = pdf.sidecar.data[i][2]

\* C2: the sessionkey check leaves the record as deduplication produced it,
\* match or mismatch; it always returns, and a mismatch is logged.
C2_SessionkeyCheckKeepsRecord ==
    [][pc = "deduplicated" =>
        /\ data' = data
        /\ pc' = "returned"
        /\ (Get(data, sessionkey) # CanonicalKey(pdf)) <=> (log' = <<"SESSIONKEY MISMATCH">>)]_vars

C2_Witness ==
    /\ pc = "returned"
    /\ log = <<"SESSIONKEY MISMATCH">>
    /\ Has(data, sessionkey)
    /\ At(data, sessionkey) # pdf.stem
    /\ \E i \in DOMAIN trail : trail[i].key = sessionkey /\ trail[i].value = At(data, sessionkey)

Unmapped(r) == r.mapped_key = None

\* C3 as stated: the returned record has an entry under the name (lower-cased
\* when it starts with QID) of every raw field that no strategy maps.
C3_UnmappedInResult ==
    pc = "returned" =>
        \A i \in DOMAIN trail :
            Unmapped(trail[i]) => Has(data, FoldQid(trail[i].actual_field_name))

\* the record the deduplication of line 753 is given
MergedRecord == AutosaveMerged(pdf.sidecar, RecordFrom(trail, <<>>))

\* k is the one name deduplication keeps for its value in rec: the first of the
\* shortest non-placeholder names, or of the shortest placeholders if there are
\* no others
KeptForValue(rec, k) ==
    LET G == {i \in DOMAIN rec : rec[i][2] = At(rec, k)}
        real == {i \in G : ~IsPlaceholder(rec[i][1])}
        cand == IF real # {} THEN real ELSE G
    IN  /\ Index(rec, k) \in cand
        /\ \A j \in cand : \/ Len(rec[j][1]) > Len(k)
                           \/ (Len(rec[j][1]) = Len(k) /\ j >= Index(rec, k))
SurvivesDedup(rec, k) ==
    /\ ~StartsWith(k, term_)
    /\ \/ \A n \in GroupOf(rec, At(rec, k)) : ~IsPlaceholder(n)
       \/ KeptForValue(rec, k)

\* C3 amended: the record holds an entry under the name (lower-cased when it
\* starts with QID) of every raw field that no strategy maps after the mapping
\* loop and after the autosave merge; the returned record holds it too unless
\* deduplication removes it: the name carries the term_ prefix, or the entry's
\* value is shared with a placeholder name and the entry is not the one name
\* kept for that value.
C3_UnmappedKeptUpToDedup ==
    \A i \in DOMAIN trail :
        Unmapped(trail[i]) =>
            LET k == FoldQid(trail[i].actual_field_name)
            IN  /\ pc \in {"mapped", "merged"} => Has(data, k)
                /\ (pc \in {"deduplicated", "returned"} /\ SurvivesDedup(MergedRecord, k))
                    => Has(data, k)

C3_Witness ==
    /\ pc = "returned"
    /\ \E i, j \in DOMAIN trail :
        /\ Unmapped(trail[i])
        /\ StartsWith(trail[i].actual_field_name, QID)
        /\ Has(data, Lower(trail[i].actual_field_name))
        /\ ~Has(data, trail[i].actual_field_name)
        /\ Unmapped(trail[j])
        /\ IsPlaceholder(trail[j].name)
        /\ Has(data, trail[j].name)

\* the strategies of the claim, each on its own: None when it finds nothing
FirstOf(results) ==
    IF \E i \in DOMAIN results : results[i] # None
    THEN results[CHOOSE i \in DOMAIN results :
                    results[i] # None /\ \A j \in 1..(i - 1) : results[j] = None]
    ELSE None
StrategyExact(m, a) == Get(m, _normalize_lookup_key(a))
StrategyFuzzy(m, a) == FuzzyMappedKey(m, sorted_mapping_keys(m), _normalize_lookup_key(a))
StrategyPartial(m, a) ==
    IF SplitLast(a, ".") # a
    THEN FirstOf(<<StrategyExact(m, SplitLast(a, ".")), StrategyFuzzy(m, SplitLast(a, "."))>>)
    ELSE None
StrategyTgmd(m, a) ==
    IF StartsWith(a, TGMD_)
    THEN FirstOf(<<StrategyExact(m, _strip_tgmd_trial_suffix(a)),
                   StrategyFuzzy(m, _strip_tgmd_trial_suffix(a))>>)
    ELSE None
StrategyHeader(a) == Get(HEADER_MAPPING, Lower(RemoveChar(Strip(a), "\"")))

\* C8: the canonical id of a raw field is the result of the first strategy that
\* succeeds, in the order exact lookup of the normalized name, substring
\* match, last dot segment, TGMD base name, display-label table.
C8_FirstStrategyWins ==
    \A i \in DOMAIN trail :
        LET a == trail[i].actual_field_name
        IN  trail[i].mapped_key =
                FirstOf(<<StrategyExact(mapping, a), StrategyFuzzy(mapping, a),
                          StrategyPartial(mapping, a), StrategyTgmd(mapping, a),
                          StrategyHeader(a)>>)

\* the spellings of the trials of TGMD base name b
TrialSuffixed(b) == {b \o <<"_","t","1">>, b \o <<"_","t","2">>}
BumpedCode(b) ==
    LET parts == Split(b, "_")
    IN  IF Len(parts) >= 3 /\ Len(parts[2]) = 3 /\ parts[2][2] = "1"
        THEN {Join([parts EXCEPT ![2] = <<parts[2][1], "2", parts[2][3]>>], "_")}
        ELSE {}
IsTgmdBase(m, b) ==
    /\ StartsWith(b, TGMD_)
    /\ _strip_tgmd_trial_suffix(b) = b
    /\ m \in LoadedTables
    /\ Get(m, _normalize_lookup_key(b)) = b

\* C10 as stated: with a table built by load_pdf_qualtrics_mapping that has an
\* entry for TGMD base name b, the names b_t1, b_t2 and b with the middle digit
\* of its code bumped to 2 resolve to the canonical id that b resolves to.
C10_TgmdVariantsResolveAlike ==
    \A i, j \in DOMAIN trail :
        (/\ IsTgmdBase(mapping, trail[i].actual_field_name)
         /\ trail[j].actual_field_name \in
                TrialSuffixed(trail[i].actual_field_name) \cup BumpedCode(trail[i].actual_field_name))
        => trail[j].mapped_key = trail[i].mapped_key

\* every key of m that the normalized name contains maps to id
NoForeignSubstringKey(m, name, id) ==
    \A k \in KeySet(m) :
        Contains(_normalize_lookup_key(k), _normalize_lookup_key(name)) => At(m, k) = id

\* C10 amended: they resolve to the canonical id that b resolves to whenever
\* every table key whose normalized form is contained in the variant's
\* normalized name maps to that id (the substring match precedes the TGMD retry).
C10_TgmdVariantsWithoutForeignKey ==
    \A i, j \in DOMAIN trail :
        (/\ IsTgmdBase(mapping, trail[i].actual_field_name)
         /\ trail[j].actual_field_name \in
                TrialSuffixed(trail[i].actual_field_name) \cup BumpedCode(trail[i].actual_field_name)
         /\ NoForeignSubstringKey(mapping, trail[j].actual_field_name, trail[i].mapped_key))
        => trail[j].mapped_key = trail[i].mapped_key

C10_Witness ==
    /\ pc = "returned"
    /\ \E i, j \in DOMAIN trail :
        /\ IsTgmdBase(mapping, trail[i].actual_field_name)
        /\ trail[j].actual_field_name \in BumpedCode(trail[i].actual_field_name)
        /\ trail[j].mapped_key = trail[i].actual_field_name
        /\ StrategyFuzzy(mapping, trail[j].actual_field_name) = None
        /\ KeySet(data) = {trail[i].actual_field_name}

(***************************************************************************)
(* Properties of the substring match (checked under SpecFuzzy).            *)
(***************************************************************************)
MatchingKeys(m, name) ==
    {k \in KeySet(m) : Contains(_normalize_lookup_key(k), _normalize_lookup_key(name))}

\* C9: with the keys in the order parse_pdf_to_csv gives them, the substring
\* match returns a key whose normalized form is contained in the normalized
\* field name and than which no matching key is longer; it returns None exactly
\* when no key matches; keys id -> A and studentid -> B resolve the field
\* Student-ID-2025 to B.
C9_FuzzyLongestMatch ==
    pc = "fuzzy_done" =>
        LET hits == MatchingKeys(mapping, fuzzy.field_name)
        IN  /\ (fuzzy.found_key = None) <=> (hits = {})
            /\ fuzzy.found_key # None =>
                /\ fuzzy.found_key \in hits
                /\ \A k \in hits : Len(k) <= Len(fuzzy.found_key)
            /\ (/\ fuzzy.field_name = <<"S","t","u","d","e","n","t","-","I","D","-","2","0","2","5">>
                /\ Get(mapping, <<"i","d">>) = <<"A">>
                /\ Get(mapping, <<"s","t","u","d","e","n","t","i","d">>) = <<"B">>)
                => At(mapping, fuzzy.found_key) = <<"B">>

C9_Witness ==
    /\ pc = "fuzzy_done"
    /\ fuzzy.field_name = <<"S","t","u","d","e","n","t","-","I","D","-","2","0","2","5">>
    /\ mapping = << <<<<"i","d">>, <<"A">> >>, <<<<"s","t","u","d","e","n","t","i","d">>, <<"B">> >> >>
    /\ fuzzy.found_key = <<"s","t","u","d","e","n","t","i","d">>

(***************************************************************************)
(* Specification of load_pdf_qualtrics_mapping on bounded configurations:  *)
(* the file is read, its entries are expanded in file order, the table is  *)
(* returned.                                                               *)
(***************************************************************************)
MaxConfigEntries == 3

\* entries of qualtrics-mapping.json (internal name -> PDF field)
ConfigEntryPool ==
    { <<<<"O","t","h","e","r">>, <<"T","G","M","D","_","1","1","1","_","H","o","p">>>>,
      <<<<"T","G","M","D","_","1","1","1","_","H","o","p">>, <<"Q","I","D","5">>>>,
      <<<<"T","G","M","D","_","1","1","1","_","H","o","p","_","t","1">>, <<"T","G","M","D","_","1","1","1","_","H","o","p","_","t","1">>>>,
      <<<<"s","t","u","d","e","n","t","-","i","d">>, <<"S","t","u","d","e","n","t"," ","I","D">>>>,
      <<<<"S","t","u","d","e","n","t","_","I","D">>, <<"Q","I","D","9">>>>,
      <<<<"T","E","C","_","F","_","1">>, <<"Q","I","D","2">>>>,
      <<<<"T","E","C","_","G","_","1">>, <<"Q","I","D","4">>>>,
      <<<<"n","o","t","e","s">>, <<>>>> }

InitLoad ==
    /\ pc = "load_call"
    /\ \E readable \in BOOLEAN, k \in 0..MaxConfigEntries :
        \E entries \in [1..k -> ConfigEntryPool] :
            /\ \A i, j \in 1..k : entries[i][1] = entries[j][1] => i = j
            /\ loader = [readable |-> readable, mapping_data |-> entries,
                         done |-> 0, mapping |-> <<>>]
    /\ fields = <<>>
    /\ deduplicated = <<>>
    /\ normalized = <<>>
    /\ pdf = <<>>
    /\ mapping = <<>>
    /\ data = <<>>
    /\ trail = <<>>
    /\ log = <<>>
    /\ fuzzy = <<>>
    /\ files = {}
    /\ extraction = <<>>
    /\ normalizing = <<>>
    /\ cli = <<>>
    /\ mapped = <<>>
    /\ stripping = <<>>

otherThanLoader ==
    <<fields, deduplicated, normalized, pdf, mapping, data, trail, log, fuzzy, files,
      extraction, normalizing, cli, mapped, stripping>>

\* lines 1011-1015: the file is missing or unreadable, the table is empty
LoadUnreadable ==
    /\ pc = "load_call"
    /\ ~loader.readable
    /\ pc' = "loaded"
    /\ UNCHANGED <<loader, otherThanLoader>>

\* lines 1012 and 1017-1018
ReadConfig ==
    /\ pc = "load_call"
    /\ loader.readable
    /\ pc' = "loading"
    /\ UNCHANGED <<loader, otherThanLoader>>

\* lines 1020-1048: the next entry of the file
LoadNextEntry ==
    /\ pc = "loading"
    /\ loader.done < Len(loader.mapping_data)
    /\ LET entry == loader.mapping_data[loader.done + 1]
       IN  loader' = [loader EXCEPT !.done = @ + 1,
                                    !.mapping = LoadEntry(@, entry[1], entry[2])]
    /\ UNCHANGED <<pc, otherThanLoader>>

\* line 1053
LoadReturn ==
    /\ pc = "loading"
    /\ loader.done = Len(loader.mapping_data)
    /\ pc' = "loaded"
    /\ UNCHANGED <<loader, otherThanLoader>>

NextLoad ==
    \/ LoadUnreadable
    \/ ReadConfig
    \/ LoadNextEntry
    \/ LoadReturn
SpecLoad == InitLoad /\ [][NextLoad]_vars

(***************************************************************************)
(* Specification of _normalize_lookup_key applied to a bounded string and  *)
(* then to its own result.                                                 *)
(***************************************************************************)
MaxKeyLen == 3

\* letters of both cases, a digit, white space, the quote and separators
KeyChars == {"S", "I", "d", "1", " ", "\t", "\"", "-", "_", DoubleStruckC}
\* spellings of one label
NormalizeExamples ==
    { <<"S","c","h","o","o","l"," ","I","D">>,
      <<"s","c","h","o","o","l","-","i","d">>,
      <<"S","c","h","o","o","l","_","I","D">>,
      <<"S","C","H","O","O","L","I","D">> }
\* the keys normalized: the strings of up to MaxKeyLen characters and the examples
NormalizeKeys ==
    UNION { [1..k -> KeyChars] : k \in 0..MaxKeyLen } \cup NormalizeExamples

InitNormalize ==
    /\ pc = "normalize_call"
    /\ \E key \in NormalizeKeys :
        normalizing = [key |-> key, once |-> None, twice |-> None]
    /\ fields = <<>>
    /\ deduplicated = <<>>
    /\ normalized = <<>>
    /\ pdf = <<>>
    /\ mapping = <<>>
    /\ data = <<>>
    /\ trail = <<>>
    /\ log = <<>>
    /\ fuzzy = <<>>
    /\ files = {}
    /\ extraction = <<>>
    /\ loader = <<>>
    /\ cli = <<>>
    /\ mapped = <<>>
    /\ stripping = <<>>

otherThanNormalizing ==
    <<fields, deduplicated, normalized, pdf, mapping, data, trail, log, fuzzy, files,
      extraction, loader, cli, mapped, stripping>>

\* _normalize_lookup_key(key)
NormalizeKey ==
    /\ pc = "normalize_call"
    /\ normalizing' = [normalizing EXCEPT !.once = _normalize_lookup_key(normalizing.key)]
    /\ pc' = "normalized_once"
    /\ UNCHANGED otherThanNormalizing

\* _normalize_lookup_key applied to its own result
NormalizeAgain ==
    /\ pc = "normalized_once"
    /\ normalizing' = [normalizing EXCEPT !.twice = _normalize_lookup_key(normalizing.once)]
    /\ pc' = "normalized_twice"
    /\ UNCHANGED otherThanNormalizing

NextNormalize ==
    \/ NormalizeKey
    \/ NormalizeAgain
SpecNormalize == InitNormalize /\ [][NextNormalize]_vars

(***************************************************************************)
(* map_pdf_field_data (lines 822-943): raw_fields is a dict of field name  *)
(* to string value.                                                        *)
(***************************************************************************)
\* lines 848-896: the mapped_key after the exact lookup, the substring match,
\* the partial name and the TGMD base name (the same steps as lines 668-704)
MapMappedKey(m, sk, field_name) ==
    TgmdStep(m, sk, field_name,
        PartialStep(m, sk, field_name,
            FuzzyStep(m, sk, field_name,
                Get(m, _normalize_lookup_key(field_name)))))

\* lines 912-914
MapProcessedValue(value) ==
    IF StartsWith(value, <<"/">>) THEN Tail(value) ELSE value

\* lines 844-914: the loop over raw_fields
RECURSIVE MapRecordFrom(_, _, _, _)
MapRecordFrom(raw_fields, m, sk, d) ==
    IF Len(raw_fields) = 0 THEN d
    ELSE LET field_name == raw_fields[1][1]
             mapped_key == MapMappedKey(m, sk, field_name)
         IN  MapRecordFrom(Tail(raw_fields), m, sk,
                Put(d, OutputKey(mapped_key, field_name), MapProcessedValue(raw_fields[1][2])))

\* lines 928-937: the entries of the canonical ids, in the order of the mapping
RECURSIVE OrderedFrom(_, _, _)
OrderedFrom(m, d, ordered) ==
    IF Len(m) = 0 THEN ordered
    ELSE LET internal_id_key == FoldQid(m[1][2])
         IN  IF Has(d, internal_id_key) /\ ~Has(ordered, internal_id_key)
             THEN OrderedFrom(Tail(m), d, Append(ordered, <<internal_id_key, At(d, internal_id_key)>>))
             ELSE OrderedFrom(Tail(m), d, ordered)

\* the record returned as deduplicate_fields leaves it
NotReordered(m, d) == d

\* lines 926-941: if mapping: the canonical ids first, the remaining entries after
Reordered(m, d) ==
    IF Len(m) = 0 THEN d
    ELSE LET ordered == OrderedFrom(m, d, <<>>)
         IN  ordered \o SelectSeq(d, LAMBDA e : ~Has(ordered, e[1]))

map_pdf_field_data(raw_fields, m) ==
    Reordered(m, deduplicate_fields(MapRecordFrom(raw_fields, m, sorted_mapping_keys(m), <<>>)))

(***************************************************************************)
(* Specification of map_pdf_field_data on bounded raw fields.              *)
(***************************************************************************)
MaxMapFields == 3

\* field names and string values captured from an open form
MapFieldPool ==
    { <<<<"S","t","u","d","e","n","t"," ","I","D">>, <<"C","1","0","0","1">>>>,
      <<<<"Q","I","D","3">>, <<"2">>>>,
      <<<<"E","R","V","_","P","1">>, <<"4">>>>,
      <<<<"E","R","V","_","P","2">>, <<"4">>>>,
      <<<<"T","G","M","D","_","1","1","1","_","H","o","p","_","t","1">>, <<"1">>>>,
      <<<<"f","i","e","l","d","_","0","0","3">>, <<"4">>>>,
      <<<<"t","e","r","m","_","E","R","V","_","P","1">>, <<"5">>>>,
      <<<<"N","o","t","e">>, <<"/","O","f","f">>>> }

InitMap ==
    /\ pc = "map_call"
    /\ \E k \in 0..MaxMapFields, m \in MappingTables :
        \E raw_fields \in [1..k -> MapFieldPool] :
            /\ \A i, j \in 1..k : raw_fields[i][1] = raw_fields[j][1] => i = j
            /\ mapped = [raw_fields |-> raw_fields, mapping |-> m, data |-> <<>>]
    /\ fields = <<>>
    /\ deduplicated = <<>>
    /\ normalized = <<>>
    /\ pdf = <<>>
    /\ mapping = <<>>
    /\ data = <<>>
    /\ trail = <<>>
    /\ log = <<>>
    /\ fuzzy = <<>>
    /\ files = {}
    /\ extraction = <<>>
    /\ loader = <<>>
    /\ normalizing = <<>>
    /\ cli = <<>>
    /\ stripping = <<>>

otherThanMapped ==
    <<fields, deduplicated, normalized, pdf, mapping, data, trail, log, fuzzy, files,
      extraction, loader, normalizing, cli, stripping>>

\* lines 839-914
MapLoop ==
    /\ pc = "map_call"
    /\ mapped' = [mapped EXCEPT !.data =
            MapRecordFrom(mapped.raw_fields, mapped.mapping,
                          sorted_mapping_keys(mapped.mapping), <<>>)]
    /\ pc' = "map_mapped"
    /\ UNCHANGED otherThanMapped

\* line 916
MapDeduplicate ==
    /\ pc = "map_mapped"
    /\ mapped' = [mapped EXCEPT !.data = deduplicate_fields(@)]
    /\ pc' = "map_deduplicated"
    /\ UNCHANGED otherThanMapped

\* lines 926-943
MapReorder ==
    /\ pc = "map_deduplicated"
    /\ mapped' = [mapped EXCEPT !.data = Reordered(mapped.mapping, @)]
    /\ pc' = "map_returned"
    /\ UNCHANGED otherThanMapped

NextMap ==
    \/ MapLoop
    \/ MapDeduplicate
    \/ MapReorder
SpecMap == InitMap /\ [][NextMap]_vars

(***************************************************************************)
(* Specification of _strip_tgmd_trial_suffix applied to field names built  *)
(* from a family prefix, a code, a task name and an ending.                *)
(***************************************************************************)
StripPrefixes == { TGMD_, <<"E","R","V","_">> }
StripCodes ==
    { <<"1","1","1">>, <<"1","2","1">>, <<"5","2","1">>, <<"0","2","0">>,
      <<"1","2">>, <<"1","2","a">>, <<"L","e","g">> }
StripTasks == { <<"H","o","p">>, <<"C","a","t">>, <<"t","u","r","n">>, <<"2","2","1">> }
StripEndings ==
    { <<>>, <<"_","t","1">>, <<"_","t","2">>, <<"_","t","3">>,
      <<"_","t","o","t","a","l">>, <<"_","t","1","_","L">>, <<"_","T","1">> }
StripNames ==
    { p \o c \o <<"_">> \o t \o e :
        p \in StripPrefixes, c \in StripCodes, t \in StripTasks, e \in StripEndings }
    \cup { TGMD_, <<"T","G","M","D","_","1","2","1">>, <<"t","g","m","d","_","1","2","1","_","H","o","p">> }

InitStrip ==
    /\ pc = "strip_call"
    /\ \E name \in StripNames : stripping = [name |-> name, result |-> None]
    /\ fields = <<>>
    /\ deduplicated = <<>>
    /\ normalized = <<>>
    /\ pdf = <<>>
    /\ mapping = <<>>
    /\ data = <<>>
    /\ trail = <<>>
    /\ log = <<>>
    /\ fuzzy = <<>>
    /\ files = {}
    /\ extraction = <<>>
    /\ loader = <<>>
    /\ normalizing = <<>>
    /\ cli = <<>>
    /\ mapped = <<>>

\* lines 64-80
StripName ==
    /\ pc = "strip_call"
    /\ stripping' = [stripping EXCEPT !.result = _strip_tgmd_trial_suffix(stripping.name)]
    /\ pc' = "stripped"
    /\ UNCHANGED <<fields, deduplicated, normalized, pdf, mapping, data, trail, log, fuzzy,
                   files, extraction, loader, normalizing, cli, mapped>>

NextStrip == StripName
SpecStrip == InitStrip /\ [][NextStrip]_vars

(***************************************************************************)
(* parse_pdf_to_csv as a whole, after extraction: the record returned for  *)
(* the raw fields of a file and a mapping table (lines 652-819).           *)
(***************************************************************************)
ParsedRecord(file, m) ==
    SessionkeyChecked(
        deduplicate_fields(
            AutosaveMerged(file.sidecar, RecordFrom(Resolutions(file.raw_fields, m), <<>>))),
        CanonicalKey(file))

(***************************************************************************)
(* Specification of parse_pdf_cli.py main: argument check, input check,    *)
(* mapping file, parse, output file, exit.                                 *)
(***************************************************************************)
\* the handler of lines 85-88 that prints nothing and exits with 0
CliExceptSilent(c, message) == [c EXCEPT !.exit_code = 0]

\* lines 85-88: except Exception: print ERROR on standard error, sys.exit(1)
CliExcept(c, message) ==
    [c EXCEPT !.exit_code = 1, !.stderr = Append(@, "ERROR: " \o message)]

\* lines 29-30 and 36-37: a message on standard error, sys.exit(1)
CliReject(c, message) ==
    [c EXCEPT !.exit_code = 1, !.stderr = Append(@, message)]

\* line 78: open(output_json, 'w') creates the file or empties it
OpenForWriting(output) == [state |-> "empty", content |-> <<>>]

\* lines 72-79: json.dump({timestamp, data}) into the open file
Dumped(record) == [state |-> "written", content |-> <<"timestamp", record>>]
\* json.dump that fails after part of the text was written
DumpedPartly(record) == [state |-> "partial", content |-> <<>>]

ArgCounts == {1, 2, 3, 4}
NotExited == 0 - 1
\* assets/pdfmapping.json: absent, unparsable, or a friendly-name table
MappingFiles ==
    { [exists |-> FALSE, valid |-> FALSE, content |-> <<>>],
      [exists |-> TRUE, valid |-> FALSE, content |-> <<>>],
      [exists |-> TRUE, valid |-> TRUE, content |-> PdfMappingLabel],
      [exists |-> TRUE, valid |-> TRUE, content |-> PdfMappingQid] }
\* the error the extraction stage of parse_pdf_to_csv raises, if any
ExtractionErrors == {"none", "PyPDF2 not installed", "PDF contains no form data"}
\* the output file before the run
OutputFiles ==
    { [state |-> "absent", content |-> <<>>],
      [state |-> "old", content |-> <<"timestamp", <<>> >>] }

InitCli ==
    /\ pc = "cli_call"
    /\ \E argc \in ArgCounts, input_exists \in BOOLEAN, mapping_file \in MappingFiles,
          extraction_error \in ExtractionErrors, raw_fields \in RawFieldLists(1),
          writing \in {"ok", "open fails", "dump fails"}, stdout_open \in BOOLEAN,
          output \in OutputFiles :
        cli = [ argc |-> argc, input_exists |-> input_exists,
                mapping_file |-> mapping_file,
                extraction_error |-> extraction_error,
                input |-> [stem |-> Stem, raw_fields |-> raw_fields, sidecar |-> NoSidecar],
                writing |-> writing, stdout_open |-> stdout_open,
                output_before |-> output, output |-> output,
                pdf_to_friendly |-> <<>>, parse_called |-> FALSE, record |-> <<>>,
                exit_code |-> NotExited, stderr |-> <<>>, stdout |-> <<>> ]
    /\ fields = <<>>
    /\ deduplicated = <<>>
    /\ normalized = <<>>
    /\ pdf = <<>>
    /\ mapping = <<>>
    /\ data = <<>>
    /\ trail = <<>>
    /\ log = <<>>
    /\ fuzzy = <<>>
    /\ files = {}
    /\ extraction = <<>>
    /\ loader = <<>>
    /\ normalizing = <<>>
    /\ mapped = <<>>
    /\ stripping = <<>>

otherThanCli ==
    <<fields, deduplicated, normalized, pdf, mapping, data, trail, log, fuzzy, files,
      extraction, loader, normalizing, mapped, stripping>>

\* lines 28-30
CliUsage ==
    /\ pc = "cli_call"
    /\ cli.argc < 3
    /\ cli' = CliReject(cli, "Usage: parse_pdf_cli.py <input_pdf> <output_json>")
    /\ pc' = "exited"
    /\ UNCHANGED otherThanCli

\* lines 35-37
CliInputMissing ==
    /\ pc = "cli_call"
    /\ cli.argc >= 3
    /\ ~cli.input_exists
    /\ cli' = CliReject(cli, "ERROR: PDF file not found")
    /\ pc' = "exited"
    /\ UNCHANGED otherThanCli

\* lines 53-64: the table from pdfmapping.json, empty without the file
CliLoadMapping ==
    /\ pc = "cli_call"
    /\ cli.argc >= 3
    /\ cli.input_exists
    /\ ~cli.mapping_file.exists \/ cli.mapping_file.valid
    /\ cli' = [cli EXCEPT !.pdf_to_friendly =
                    IF cli.mapping_file.exists
                    THEN pdf_to_friendly(cli.mapping_file.content)
                    ELSE <<>>]
    /\ pc' = "cli_mapping_loaded"
    /\ UNCHANGED otherThanCli

\* lines 56-57 raising (the file is not JSON), handled at lines 85-88
CliMappingError ==
    /\ pc = "cli_call"
    /\ cli.argc >= 3
    /\ cli.input_exists
    /\ cli.mapping_file.exists /\ ~cli.mapping_file.valid
    /\ cli' = CliExcept(cli, "JSONDecodeError")
    /\ pc' = "exited"
    /\ UNCHANGED otherThanCli

\* the error parse_pdf_to_csv raises for the input, "none" when it returns
ParseError(c) ==
    IF c.extraction_error # "none" THEN c.extraction_error
    ELSE IF c.input.raw_fields = <<>> THEN "No form fields found"
    ELSE "none"

\* line 67: parse_pdf_to_csv returns the record
CliParse ==
    /\ pc = "cli_mapping_loaded"
    /\ ParseError(cli) = "none"
    /\ cli' = [cli EXCEPT !.parse_called = TRUE,
                          !.record = ParsedRecord(cli.input, cli.pdf_to_friendly)]
    /\ pc' = "cli_parsed"
    /\ UNCHANGED otherThanCli

\* line 67 raising, handled at lines 85-88
CliParseError ==
    /\ pc = "cli_mapping_loaded"
    /\ ParseError(cli) # "none"
    /\ cli' = CliExcept([cli EXCEPT !.parse_called = TRUE], ParseError(cli))
    /\ pc' = "exited"
    /\ UNCHANGED otherThanCli

\* line 78 raising (the output path cannot be opened), handled at lines 85-88
CliOpenError ==
    /\ pc = "cli_parsed"
    /\ cli.writing = "open fails"
    /\ cli' = CliExcept(cli, "OSError")
    /\ pc' = "exited"
    /\ UNCHANGED otherThanCli

\* lines 72-79
CliWrite ==
    /\ pc = "cli_parsed"
    /\ cli.writing = "ok"
    /\ cli' = [cli EXCEPT !.output = Dumped(cli.record)]
    /\ pc' = "cli_written"
    /\ UNCHANGED otherThanCli

\* line 79 raising after line 78 opened the file, handled at lines 85-88
CliDumpError ==
    /\ pc = "cli_parsed"
    /\ cli.writing = "dump fails"
    /\ cli' = CliExcept([cli EXCEPT !.output = DumpedPartly(cli.record)], "OSError")
    /\ pc' = "exited"
    /\ UNCHANGED otherThanCli

\* lines 81-83
CliSuccess ==
    /\ pc = "cli_written"
    /\ cli.stdout_open
    /\ cli' = [cli EXCEPT !.stdout = Append(@, "SUCCESS"), !.exit_code = 0]
    /\ pc' = "exited"
    /\ UNCHANGED otherThanCli

\* line 82 raising (standard output is closed), handled at lines 85-88
CliPrintError ==
    /\ pc = "cli_written"
    /\ ~cli.stdout_open
    /\ cli' = CliExcept(cli, "ValueError")
    /\ pc' = "exited"
    /\ UNCHANGED otherThanCli

NextCli ==
    \/ CliUsage
    \/ CliInputMissing
    \/ CliLoadMapping
    \/ CliMappingError
    \/ CliParse
    \/ CliParseError
    \/ CliOpenError
    \/ CliWrite
    \/ CliDumpError
    \/ CliSuccess
    \/ CliPrintError
SpecCli == InitCli /\ [][NextCli]_vars

(***************************************************************************)
(* Properties of the values and keys of the returned record (SpecParse).   *)
(***************************************************************************)
SlashOff == <<"/","O","f","f">>

\* C11: a field value /Off is recorded as the empty string; the PDF with the
\* fields Student ID = C1001 and QID3 = /Off and the mapping
\* {student-id: Student ID} returns {student-id: C1001, qid3: ''}.
C11_OffRecordedAsEmpty ==
    /\ \A i \in DOMAIN trail :
        pdf.raw_fields[i].value = SlashOff => trail[i].value = <<>>
    /\ (/\ pc = "returned"
        /\ pdf.raw_fields =
            << [name |-> <<"S","t","u","d","e","n","t"," ","I","D">>, is_obj |-> FALSE, alt |-> None, value |-> <<"C","1","0","0","1">>],
               [name |-> <<"Q","I","D","3">>, is_obj |-> FALSE, alt |-> None, value |-> SlashOff] >>
        /\ mapping = pdf_to_friendly(PdfMappingLabel)
        /\ ~pdf.sidecar.exists)
        => data = << <<<<"s","t","u","d","e","n","t","-","i","d">>, <<"C","1","0","0","1">>>>, <<<<"q","i","d","3">>, <<>> >> >>

\* C12: the stages run in the order field mapping, deduplication, autosave
\* merge, sessionkey check: the returned record is the autosave merge applied
\* to the deduplicated mapped fields, so that no autosave entry is input to
\* deduplication.
Entries(d) == { d[i] : i \in DOMAIN d }
C12_DedupBeforeMerge ==
    pc = "returned" =>
        Entries(data) =
            Entries(AutosaveMerged(pdf.sidecar, deduplicate_fields(RecordFrom(trail, <<>>))))

\* C13: every key of the returned record that starts with QID, in any letter
\* case, is entirely lower-case.
C13_QidKeysLowerCase ==
    pc = "returned" =>
        \A k \in KeySet(data) : StartsWith(Upper(k), QID) => k = Lower(k)

(***************************************************************************)
(* Properties of the extraction stage (checked under SpecExtract).         *)
(***************************************************************************)
Finished == pc \in {"raised", "returned"}
NoFormDataError ==
    pc = "raised" /\ extraction.error \in {"PDF contains no form data", "No form fields found"}
\* a strategy yields a field for the document
DirectYields(d) == d.get_fields # Raises /\ d.get_fields # <<>>
AnnotationsYield(d) == d.annotations # <<>>
XmlYields(d) == d.xfa_xml # <<>>
SomeStrategyYields(d) == DirectYields(d) \/ AnnotationsYield(d) \/ XmlYields(d)

\* C14 as stated: with the PDF library present, parse_pdf_to_csv fails for lack
\* of form data exactly when neither the direct field read nor the annotation
\* scan nor the XFA XML parse yields a field for the document.
C14_RaisesIffNoStrategyYields ==
    (Finished /\ extraction.library) =>
        (NoFormDataError <=> ~SomeStrategyYields(extraction.document))

\* the strategies that the classification of the document selects yield a field
SelectedStrategiesYield ==
    LET d == extraction.document
        c == extraction.converted_document
    IN  CASE extraction.pdf_type = "AcroForm" -> DirectYields(d) \/ AnnotationsYield(d)
          [] extraction.pdf_type = "XFA" /\ extraction.converted = "True" ->
                DirectYields(c) \/ AnnotationsYield(c)
          [] extraction.pdf_type = "XFA" /\ extraction.converted # "True" -> XmlYields(d)
          [] OTHER -> FALSE

\* C14 amended: it fails for lack of form data exactly when the strategies
\* selected by the classification yield no field: direct read and annotation
\* scan of the document for AcroForm, of the converted file for XFA after a
\* successful conversion, the XML parse for XFA after a failed conversion, and
\* no strategy at all for any other classification; it never fails after
\* extraction yielded a field.
C14_RaisesIffSelectedStrategiesYieldNothing ==
    (Finished /\ extraction.library) =>
        /\ NoFormDataError <=> ~SelectedStrategiesYield
        /\ pc = "returned" <=> extraction.raw_fields # <<>>
        /\ pc = "raised" => NoFormDataError

C14_Witness ==
    /\ pc = "raised"
    /\ extraction.error = "No form fields found"
    /\ extraction.pdf_type = "XFA"
    /\ extraction.converted = "False"
    /\ DirectYields(extraction.document)
    /\ AnnotationsYield(extraction.document)

\* C15: after a successful conversion the structure detection is run on the
\* converted file before an extractor runs on it.
C15_DetectsConvertedFile ==
    \A i \in DOMAIN extraction.calls :
        extraction.calls[i] = <<"get_fields", "converted">> =>
            \E j \in 1..(i - 1) : extraction.calls[j] = <<"_detect_pdf_type", "converted">>

\* the conversion did not succeed: the tool is missing, failed to run, exited
\* with a non-zero code, or left no output file
ToolFailed ==
    \/ extraction.tool.launch # "ran"
    \/ extraction.tool.returncode # 0
    \/ AcroPdf \notin DOMAIN files

\* C16: when the conversion tool fails in any way, the conversion reports
\* failure without raising and the XFA XML extraction follows; parsing fails
\* only when that extraction yields no field.
C16_ToolFailureFallsBackToXml ==
    (extraction.pdf_type = "XFA" /\ pc # "detected" /\ ToolFailed) =>
        /\ extraction.converted = "False"
        /\ pc # "converted"
        /\ pc = "raised" =>
            extraction.error = "No form fields found" /\ ~XmlYields(extraction.document)
        /\ pc \in {"extracted", "returned"} =>
            /\ extraction.raw_fields = _extract_xfa_xml(extraction.document)
            /\ extraction.calls[Len(extraction.calls)] = <<"_extract_xfa_xml", "original">>
        /\ (Finished /\ XmlYields(extraction.document)) => pc = "returned"

C16_Witness ==
    /\ pc = "returned"
    /\ extraction.pdf_type = "XFA"
    /\ extraction.tool.launch = "not_found"
    /\ extraction.raw_fields = XmlFields

\* C17: parse_pdf_to_csv leaves the files next to the PDF as they are.
C17_FilesUnchanged == [][files' = files]_vars

(***************************************************************************)
(* Properties of the mapping tables.                                       *)
(***************************************************************************)
\* C18: every key of the mapping table handed to parse_pdf_to_csv is in
\* normalized form, for the table of load_pdf_qualtrics_mapping and for the
\* table the CLI builds from pdfmapping.json.
C18_MappingKeysNormalized ==
    \A k \in KeySet(mapping) : _normalize_lookup_key(k) = k

\* the configuration has been processed
Loaded == pc = "loaded" /\ loader.readable
\* the entries with a non-empty field name
Expanded(mapping_data) == { i \in DOMAIN mapping_data : mapping_data[i][2] # <<>> }
\* the canonical id of an entry with the TGMD trial markers stripped
BaseInternal(mapping_data, i) == _strip_tgmd_trial_suffix(mapping_data[i][1])

\* C19 as stated: after loading, the table maps normalize(c') to c' for the
\* canonical id c of every entry with a non-empty field name, c' being c with
\* the TGMD trial markers stripped, whatever the other entries and their order.
C19_CanonicalIdsMatchable ==
    Loaded =>
        \A i \in Expanded(loader.mapping_data) :
            Get(loader.mapping, _normalize_lookup_key(BaseInternal(loader.mapping_data, i)))
                = BaseInternal(loader.mapping_data, i)

\* the keys an entry assigns whatever the table holds: its normalized field
\* name, the TGMD variants of the field name, the legacy TEC alias
AssignedKeys(internal_name, pdf_field) ==
    LET base_internal == _strip_tgmd_trial_suffix(internal_name)
        base_pdf == _strip_tgmd_trial_suffix(pdf_field)
    IN  {_normalize_lookup_key(pdf_field)}
        \cup (IF StartsWith(base_internal, TGMD_)
              THEN { _normalize_lookup_key(base_pdf),
                     _normalize_lookup_key(base_pdf \o <<"_","t","1">>),
                     _normalize_lookup_key(base_pdf \o <<"_","t","2">>) }
              ELSE {})
        \cup (IF StartsWith(base_internal, TEC_F_)
              THEN { _normalize_lookup_key(TEC_G_ \o SubSeq(base_internal, 7, Len(base_internal))) }
              ELSE IF StartsWith(base_internal, TEC_M_)
              THEN { _normalize_lookup_key(TEC_B_ \o SubSeq(base_internal, 7, Len(base_internal))) }
              ELSE {})
\* the entries that assign key k, and the entries whose canonical id is k
Assigning(mapping_data, k) ==
    { j \in Expanded(mapping_data) : k \in AssignedKeys(mapping_data[j][1], mapping_data[j][2]) }
Claiming(mapping_data, k) ==
    { j \in Expanded(mapping_data) : _normalize_lookup_key(BaseInternal(mapping_data, j)) = k }
Last(S) == CHOOSE j \in S : \A l \in S : l <= j
First(S) == CHOOSE j \in S : \A l \in S : j <= l

\* C19 amended: after loading, the table has the key normalize(c') for every
\* such entry; its value is the stripped canonical id of the last entry that
\* assigns this key as its field name, TGMD variant or TEC alias, if there is
\* one, and otherwise of the first entry whose stripped canonical id
\* normalizes to the key; it is c' when no other entry produces the key with
\* a different id.
C19_CanonicalIdsMatchableUnlessTaken ==
    Loaded =>
        \A i \in Expanded(loader.mapping_data) :
            LET entries == loader.mapping_data
                c == BaseInternal(entries, i)
                k == _normalize_lookup_key(c)
                producers == Assigning(entries, k) \cup Claiming(entries, k)
            IN  /\ Has(loader.mapping, k)
                /\ At(loader.mapping, k) =
                    IF Assigning(entries, k) # {}
                    THEN BaseInternal(entries, Last(Assigning(entries, k)))
                    ELSE BaseInternal(entries, First(Claiming(entries, k)))
                /\ (\A j \in producers : BaseInternal(entries, j) = c)
                    => At(loader.mapping, k) = c

C19_Witness ==
    /\ Loaded
    /\ loader.mapping_data =
        << <<<<"T","G","M","D","_","1","1","1","_","H","o","p">>, <<"Q","I","D","5">>>>,
           <<<<"O","t","h","e","r">>, <<"T","G","M","D","_","1","1","1","_","H","o","p">>>>,
           <<<<"s","t","u","d","e","n","t","-","i","d">>, <<"S","t","u","d","e","n","t"," ","I","D">>>> >>
    /\ Get(loader.mapping, <<"t","g","m","d","1","1","1","h","o","p">>) = <<"O","t","h","e","r">>
    /\ Get(loader.mapping, <<"s","t","u","d","e","n","t","i","d">>) = <<"s","t","u","d","e","n","t","-","i","d">>

(***************************************************************************)
(* Properties of _normalize_lookup_key (SpecNormalize).                    *)
(***************************************************************************)
\* C20: _normalize_lookup_key is idempotent: normalizing a normalized string
\* gives the same string.
C20_NormalizeIdempotent ==
    pc = "normalized_twice" => normalizing.twice = normalizing.once

C20_Witness ==
    /\ pc = "normalized_twice"
    /\ normalizing.key = <<"\"", " ", "S">>
    /\ normalizing.once = <<"s">>
    /\ normalizing.twice = <<"s">>

\* the characters normalization ignores, and the plain (ASCII) characters
IgnoredChars == {c \in KeyChars : ~IsAlnum(c)}
IsPlain(c) == c \in UpperSet \cup LowerSet \cup DigitSet \/ ~IsAlnum(c)
InsertAt(s, i, c) == SubSeq(s, 1, i) \o <<c>> \o SubSeq(s, i + 1, Len(s))
SwapCase(c) ==
    IF c \in UpperSet THEN ToLower[c] ELSE IF c \in LowerSet THEN ToUpper[c] ELSE c
\* the strings one step from s: an ignored character more, or one letter in
\* the other case
Respellings(s) ==
    { InsertAt(s, i, c) : i \in 0..Len(s), c \in IgnoredChars }
    \cup { [s EXCEPT ![i] = SwapCase(s[i])] : i \in DOMAIN s }
SameUnderRespelling(s) ==
    \A r \in Respellings(s) : _normalize_lookup_key(r) = _normalize_lookup_key(s)
schoolid == <<"s","c","h","o","o","l","i","d">>

IsCanonicalId(k) == k \in ValueSet(mapping)
MappingRank(k) == CHOOSE i \in DOMAIN mapping :
    mapping[i][2] = k /\ \A j \in 1..(i - 1) : mapping[j][2] # k
\* k is the key of an extracted field; the place of the first such field
IsExtracted(k) == \E i \in DOMAIN trail : trail[i].key = k
ExtractionRank(k) == CHOOSE i \in DOMAIN trail :
    trail[i].key = k /\ \A j \in 1..(i - 1) : trail[j].key # k

\* C22: the keys of the returned record appear in mapping-table order,
\* followed by the unmapped fields in the order of their extraction.
C22_MappingOrderThenExtractionOrder ==
    pc = "returned" =>
        \A i, j \in DOMAIN data :
            i < j =>
                LET a == data[i][1]
                    b == data[j][1]
                IN  /\ IsCanonicalId(b) =>
                        IsCanonicalId(a) /\ MappingRank(a) <= MappingRank(b)
                    /\ (~IsCanonicalId(a) /\ ~IsCanonicalId(b)
                            /\ IsExtracted(a) /\ IsExtracted(b)) =>
                        ExtractionRank(a) < ExtractionRank(b)

(***************************************************************************)
(* Properties of the sessionkey check (SpecParse).                         *)
(***************************************************************************)
\* the sessionkey extracted from the PDF's own form fields (None without one)
ParsedSessionkey == Get(RecordFrom(trail, <<>>), sessionkey)

\* C23: the value compared with the filename-derived identifier is the
\* sessionkey extracted from the PDF's own fields; a sessionkey that only the
\* autosave sidecar supplies is never the value compared, so the check reports
\* a match only for a PDF whose own sessionkey field matches.
C23_ComparesParsedSessionkey ==
    /\ (pc = "deduplicated" /\ Has(data, sessionkey)) =>
        At(data, sessionkey) = ParsedSessionkey
    /\ (pc = "returned" /\ log = <<"Sessionkey validation: matches filename">>) =>
        ParsedSessionkey = CanonicalKey(pdf)

(***************************************************************************)
(* Properties of the command line wrapper (SpecCli).                       *)
(***************************************************************************)
\* C24: the CLI exits with 0 only after parse_pdf_to_csv returned a record and
\* the output {timestamp, data: record} was written; it exits with 1 and a
\* message on standard error with fewer than two arguments, with a missing
\* input PDF and when extraction or writing raises; after an extraction
\* error the output file is as it was.
C24_ExitCodes ==
    pc = "exited" =>
        /\ cli.exit_code \in {0, 1}
        /\ cli.exit_code = 0 =>
            /\ cli.parse_called /\ ParseError(cli) = "none"
            /\ cli.output = Dumped(ParsedRecord(cli.input, cli.pdf_to_friendly))
        /\ (\/ cli.argc < 3
            \/ ~cli.input_exists
            \/ (cli.parse_called /\ ParseError(cli) # "none")
            \/ (cli.parse_called /\ ParseError(cli) = "none" /\ cli.writing # "ok")) =>
            cli.exit_code = 1 /\ Len(cli.stderr) > 0
        /\ (cli.parse_called /\ ParseError(cli) # "none") => cli.output = cli.output_before
        /\ ~cli.parse_called => cli.output = cli.output_before

C24_Witness ==
    /\ pc = "exited"
    /\ cli.parse_called
    /\ ParseError(cli) = "PDF contains no form data"
    /\ cli.output_before.state = "old"
    /\ cli.output = cli.output_before
    /\ cli.exit_code = 1
    /\ cli.stderr = <<"ERROR: PDF contains no form data">>

(***************************************************************************)
(* Properties of map_pdf_field_data (SpecMap).                             *)
(***************************************************************************)
\* the same raw fields as parse_pdf_to_csv extracts them, without sidecar
AsExtracted(raw_fields) ==
    [ stem |-> Stem,
      raw_fields |-> [i \in DOMAIN raw_fields |->
            [name |-> raw_fields[i][1], is_obj |-> FALSE, alt |-> None,
             value |-> raw_fields[i][2]]],
      sidecar |-> NoSidecar ]

\* C25: for the same mapping table and the same raw fields with plain string
\* values, without sidecar, map_pdf_field_data and parse_pdf_to_csv resolve
\* every field name to the same output key and return the same set of
\* key/value entries.
C25_MapMirrorsParse ==
    pc = "map_returned" =>
        LET m == mapped.mapping
            sk == sorted_mapping_keys(m)
        IN  /\ \A i \in DOMAIN mapped.raw_fields :
                OutputKey(MapMappedKey(m, sk, mapped.raw_fields[i][1]), mapped.raw_fields[i][1])
                    = OutputKey(MappedKey(m, sk, mapped.raw_fields[i][1]), mapped.raw_fields[i][1])
            /\ Entries(mapped.data) = Entries(ParsedRecord(AsExtracted(mapped.raw_fields), m))

\* the output key of the raw field at place i; the place of the first raw
\* field with output key k
MapKeyAt(i) ==
    OutputKey(MapMappedKey(mapped.mapping, sorted_mapping_keys(mapped.mapping),
                           mapped.raw_fields[i][1]),
              mapped.raw_fields[i][1])
MapInputRank(k) == CHOOSE i \in DOMAIN mapped.raw_fields :
    MapKeyAt(i) = k /\ \A j \in 1..(i - 1) : MapKeyAt(j) # k
IsMapCanonicalId(k) == \E i \in DOMAIN mapped.mapping : FoldQid(mapped.mapping[i][2]) = k
MapMappingRank(k) == CHOOSE i \in DOMAIN mapped.mapping :
    FoldQid(mapped.mapping[i][2]) = k
        /\ \A j \in 1..(i - 1) : FoldQid(mapped.mapping[j][2]) # k

\* C26: with a non-empty mapping, the keys of the returned record that are
\* canonical ids of the mapping come first, in the mapping's insertion order,
\* and the remaining fields follow in the order of the raw input fields.
C26_MapOrder ==
    (pc = "map_returned" /\ mapped.mapping # <<>>) =>
        \A i, j \in DOMAIN mapped.data :
            i < j =>
                LET a == mapped.data[i][1]
                    b == mapped.data[j][1]
                IN  /\ IsMapCanonicalId(b) =>
                        IsMapCanonicalId(a) /\ MapMappingRank(a) < MapMappingRank(b)
                    /\ (~IsMapCanonicalId(a) /\ ~IsMapCanonicalId(b)
                            /\ (\E p \in DOMAIN mapped.raw_fields : MapKeyAt(p) = a)
                            /\ (\E p \in DOMAIN mapped.raw_fields : MapKeyAt(p) = b)) =>
                        MapInputRank(a) < MapInputRank(b)

(***************************************************************************)
(* Properties of the answers kept in the returned record (SpecParse).      *)
(***************************************************************************)
NoTermField == \A i \in DOMAIN pdf.raw_fields : ~StartsWith(pdf.raw_fields[i].name, term_)

\* C27: when no raw field name carries the term_ prefix and there is no
\* sidecar, every value extracted from the PDF (a leading / stripped) is the
\* value of at least one key of the returned record, also when several raw
\* fields resolve to the same canonical id (stated for the non-empty values).
C27_NoAnswerLost ==
    (pc = "returned" /\ NoTermField /\ ~pdf.sidecar.exists) =>
        \A i \in DOMAIN trail :
            trail[i].value # <<>> => trail[i].value \in ValueSet(data)

\* the record parse_pdf_to_csv returns for the same PDF and mapping with the
\* sidecar sc in place of the actual one
ReturnedWith(sc) == ParsedRecord([pdf EXCEPT !.sidecar = sc], mapping)

\* C28: the fate of the parsed answers does not depend on the autosave
\* content: for the same PDF and mapping and any other sidecar, every key
\* whose value parsed from the PDF is non-empty has in both returned records
\* the same entry, the parsed value.
C28_ParsedAnswersIndependentOfAutosave ==
    pc = "returned" =>
        \A sc \in Sidecars :
            \A i \in DOMAIN trail :
                trail[i].value # <<>> =>
                    Get(data, trail[i].key) = Get(ReturnedWith(sc), trail[i].key)

(***************************************************************************)
(* Algebraic properties of deduplicate_fields (SpecDedup).                 *)
(***************************************************************************)
\* C29: deduplicate_fields is idempotent: applied to its own result it
\* returns the same field map, also for maps with placeholder names and
\* term_-prefixed names.
C29_DedupIdempotent ==
    pc = "dedup_done" =>
        Entries(deduplicate_fields(normalized)) = Entries(normalized)

\* no term_-prefixed name of fs has a base name that is itself term_-prefixed
\* or a placeholder
PlainBases(fs) ==
    \A i \in DOMAIN fs :
        StartsWith(fs[i][1], term_) =>
            /\ ~StartsWith(SubSeq(fs[i][1], 6, Len(fs[i][1])), term_)
            /\ ~StartsWith(SubSeq(fs[i][1], 6, Len(fs[i][1])), field_)

\* C29 amended: deduplicate_fields applied to its own result returns the same
\* field map, in the same order, for every field map in which the base name
\* of each term_-prefixed name is neither term_-prefixed nor a placeholder.
C29_DedupIdempotentOnPlainBases ==
    (pc = "dedup_done" /\ PlainBases(fields)) =>
        deduplicate_fields(normalized) = normalized

C29_Witness ==
    /\ pc = "dedup_done"
    /\ PlainBases(fields)
    /\ \E i \in DOMAIN fields : StartsWith(fields[i][1], term_)
    /\ \E i \in DOMAIN fields : StartsWith(fields[i][1], field_)
    /\ Len(normalized) < Len(fields)
    /\ Len(normalized) >= 2
    /\ deduplicate_fields(normalized) = normalized

(***************************************************************************)
(* Properties of _strip_tgmd_trial_suffix (SpecStrip).                     *)
(***************************************************************************)
EndsWith(s, e) == Len(s) >= Len(e) /\ SubSeq(s, Len(s) - Len(e) + 1, Len(s)) = e
\* the name without a trailing _t1 or _t2
WithoutTrialSuffix(n) ==
    IF EndsWith(n, <<"_","t","1">>) \/ EndsWith(n, <<"_","t","2">>)
    THEN SubSeq(n, 1, Len(n) - 3)
    ELSE n
\* the second part of the name is a 3-digit code with middle digit 2
HasBumpedCode(n) ==
    LET parts == Split(n, "_")
    IN  /\ Len(parts) >= 3
        /\ Len(parts[2]) = 3
        /\ \A i \in 1..3 : IsDigit(parts[2][i])
        /\ parts[2][2] = "2"
\* the name with 10 subtracted from such a code
WithoutCodeBump(n) ==
    IF HasBumpedCode(n)
    THEN LET parts == Split(n, "_")
         IN  Join([parts EXCEPT ![2] = IntToStr(StrToInt(parts[2]) - 10)], "_")
    ELSE n

\* C30: _strip_tgmd_trial_suffix changes a name only by removing a trailing
\* _t1 or _t2 or by subtracting 10 from a 3-digit code with middle digit 2; a
\* name that does not start with TGMD_, and a TGMD_ name with neither, is
\* returned unchanged, and no other part of the task name is removed.
C30_StripsOnlyTrialMarkers ==
    pc = "stripped" =>
        LET n == stripping.name
            r == stripping.result
        IN  /\ ~StartsWith(n, TGMD_) => r = n
            /\ r \in { n, WithoutTrialSuffix(n), WithoutCodeBump(n),
                       WithoutCodeBump(WithoutTrialSuffix(n)) }
            /\ (WithoutTrialSuffix(n) = n /\ ~HasBumpedCode(n)) => r = n

====
